--------------------------- MODULE CredentialProofs --------------------------
(***************************************************************************)
(* Machine-checked proofs about credentials: a login has one outcome, for  *)
(* any number of concurrent callbacks, device flows and polls; only the    *)
(* end of a probe takes activity or a scheduled probe away, for any number *)
(* of collectors and any durations; a refresh grant is spent once and no   *)
(* operator's change is lost to a refresh, for any number of Homes,        *)
(* credentials, tokens, crashes and operator changes; the credential cache *)
(* of a Home follows the table, for any number of credentials, versions    *)
(* and operations; the model registry's counts and marks are those of its  *)
(* registrations, for any clients, models and providers; and no credential *)
(* that is to be refreshed is forgotten by the schedule, for any           *)
(* credentials, workers and changes.                                       *)
(***************************************************************************)
EXTENDS OAuthSessions, QuotaProbe, Refresh, AutoRefresh, AuthCache, ModelRegistry,
        SumLemmas, FiniteSetTheorems, WellFoundedInduction, TLAPS

-------------------------------------------------------------------------------
(* OAuth sessions. *)

SessionSpec == SessionInit /\ [][SessionNext]_sessionVars

SessionRows == [status : {"", "complete", "error", "deleted"}, expired : BOOLEAN]

SessionTypeInv ==
    /\ session \in SessionRows
    /\ stored \subseteq Flows \union Polls
    /\ cancelled \in BOOLEAN

\* Credentials are stored together with the completion of the session, and a cancelled
\* session is a failed one.
OutcomeInRow ==
    /\ stored # {} => session.status \in {"complete", "deleted"}
    /\ cancelled => session.status = "error"

SessionInv == SessionTypeInv /\ OutcomeInRow

LEMMA SessionInitInv == SessionInit => SessionInv
<1> SUFFICES ASSUME SessionInit PROVE SessionInv
  OBVIOUS
<1>1. session = [status |-> "", expired |-> FALSE] /\ stored = {} /\ cancelled = FALSE
  BY DEF SessionInit
<1>2. session \in SessionRows
  BY <1>1 DEF SessionRows
<1> QED
  BY <1>1, <1>2 DEF SessionInv, SessionTypeInv, OutcomeInRow

\* How a step may change the outcome of the login.
OutcomeChange ==
    \/ UNCHANGED <<session, stored, cancelled>>
    \/ /\ session' = [session EXCEPT !.expired = TRUE] /\ session # NoSession
       /\ UNCHANGED <<stored, cancelled>>
    \/ /\ session' = NoSession /\ session.status = "complete"
       /\ UNCHANGED <<stored, cancelled>>
    \/ /\ session' = [session EXCEPT !.status = "error"] /\ session.status = ""
       /\ stored' = stored /\ cancelled' \in {cancelled, TRUE}
    \/ /\ session' = [status |-> "error", expired |-> FALSE] /\ session.status = ""
       /\ UNCHANGED <<stored, cancelled>>
    \/ /\ session' = [status |-> "complete", expired |-> FALSE] /\ session.status = ""
       /\ \E f \in Flows \union Polls : stored' = stored \union {f}
       /\ cancelled' = cancelled

LEMMA OutcomeChanges == [SessionNext]_sessionVars => OutcomeChange
<1> SUFFICES ASSUME [SessionNext]_sessionVars PROVE OutcomeChange
  OBVIOUS
<1>1. CASE SessionTTLPasses \/ Cancel
  BY <1>1 DEF SessionTTLPasses, Cancel, OutcomeChange
<1>2. ASSUME NEW f \in Flows \union Polls,
             Look(f) \/ Reload(f) \/ Looked(f) \/ Merge(f) \/ Exchange(f) \/ TakeNow(f)
      PROVE  OutcomeChange
  <2>1. UNCHANGED <<session, stored, cancelled>>
    BY <1>2 DEF Look, Reload, Looked, Merge, Exchange, TakeNow
  <2> QED
    BY <2>1 DEF OutcomeChange
<1>3. ASSUME NEW f \in Flows \union Polls, PurgeCompleted(f) \/ ExpirePending(f) \/ Fail(f)
      PROVE  OutcomeChange
  BY <1>3 DEF PurgeCompleted, ExpirePending, Fail, PendingSession, OutcomeChange
<1>4. ASSUME NEW f \in Flows \union Polls, CompleteWithAuths(f) PROVE OutcomeChange
  BY <1>4 DEF CompleteWithAuths, Claimed, OutcomeChange
<1>5. CASE UNCHANGED sessionVars
  BY <1>5 DEF sessionVars, OutcomeChange
<1> QED
  BY <1>1, <1>2, <1>3, <1>4, <1>5 DEF SessionNext

LEMMA ChangedRow ==
    ASSUME NEW snap \in SessionRows
    PROVE  /\ [snap EXCEPT !.expired = TRUE] \in SessionRows
           /\ [snap EXCEPT !.expired = TRUE].status = snap.status
           /\ [snap EXCEPT !.status = "error"] \in SessionRows
           /\ [snap EXCEPT !.status = "error"].status = "error"
BY DEF SessionRows

LEMMA NewRows ==
    /\ NoSession \in SessionRows /\ NoSession.status = "deleted"
    /\ [status |-> "error", expired |-> FALSE] \in SessionRows
    /\ [status |-> "complete", expired |-> FALSE] \in SessionRows
BY DEF SessionRows, NoSession

LEMMA SessionStepInv == SessionInv /\ OutcomeChange => SessionInv'
<1> SUFFICES ASSUME SessionInv, OutcomeChange PROVE SessionInv'
  OBVIOUS
<1>1. session \in SessionRows /\ stored \subseteq Flows \union Polls /\ cancelled \in BOOLEAN
  BY DEF SessionInv, SessionTypeInv
<1>2. session' \in SessionRows
  BY <1>1, ChangedRow, NewRows DEF OutcomeChange
<1>3. stored' \subseteq Flows \union Polls /\ cancelled' \in BOOLEAN
  BY <1>1 DEF OutcomeChange
<1>4. stored' # {} => session'.status \in {"complete", "deleted"}
  <2>1. stored # {} => session.status \in {"complete", "deleted"}
    BY DEF SessionInv, OutcomeInRow
  <2> QED
    BY <1>1, <2>1, ChangedRow, NewRows DEF OutcomeChange
<1>5. ASSUME cancelled' PROVE session'.status = "error"
  <2>1. cancelled => session.status = "error"
    BY DEF SessionInv, OutcomeInRow
  <2>2. CASE cancelled' = cancelled
    BY <1>1, <1>5, <2>1, <2>2, ChangedRow, NewRows DEF OutcomeChange
  <2>3. CASE cancelled' # cancelled
    <3>1. session' = [session EXCEPT !.status = "error"]
      BY <2>3 DEF OutcomeChange
    <3> QED
      BY <1>1, <3>1, ChangedRow
  <2> QED
    BY <2>2, <2>3
<1> QED
  BY <1>2, <1>3, <1>4, <1>5 DEF SessionInv, SessionTypeInv, OutcomeInRow

LEMMA SpecSessionInv == SessionSpec => []SessionInv
<1>1. SessionInv /\ [SessionNext]_sessionVars => SessionInv'
  BY SessionStepInv, OutcomeChanges
<1> QED
  BY <1>1, SessionInitInv, PTL DEF SessionSpec

\* At most one request stores credentials, none does once the user was told that the login is
\* cancelled, and a settled session stays settled, whatever comes first.
THEOREM OneOutcome == SessionSpec => LoginSettlesOnce
<1> DEFINE OneLogin == /\ stored' # stored => stored = {} /\ Cardinality(stored') = 1
                       /\ cancelled' => stored' = {}
           Settled == session.status # "" =>
                          \/ session'.status = session.status
                          \/ session.status = "complete" /\ session' = NoSession
<1>1. SessionInv /\ [SessionNext]_sessionVars => OneLogin
  <2> SUFFICES ASSUME SessionInv, OutcomeChange PROVE OneLogin
    BY OutcomeChanges
  <2>1. ASSUME stored' # stored PROVE stored = {} /\ Cardinality(stored') = 1
    <3>1. PICK f \in Flows \union Polls : stored' = stored \union {f} /\ session.status = ""
      BY <2>1 DEF OutcomeChange
    <3>2. stored = {}
      BY <3>1 DEF SessionInv, OutcomeInRow
    <3> QED
      BY <3>1, <3>2, FS_Singleton
  <2>2. cancelled' => stored' = {}
    BY SessionStepInv DEF SessionInv, OutcomeInRow
  <2> QED
    BY <2>1, <2>2
<1>2. SessionInv /\ [SessionNext]_sessionVars => Settled
  <2> SUFFICES ASSUME SessionInv, OutcomeChange, session.status # "" PROVE Settled
    BY OutcomeChanges
  <2>1. \/ session' = session
        \/ session' = [session EXCEPT !.expired = TRUE]
        \/ session.status = "complete" /\ session' = NoSession
    BY DEF OutcomeChange
  <2>2. session \in SessionRows
    BY DEF SessionInv, SessionTypeInv
  <2>3. [session EXCEPT !.expired = TRUE].status = session.status
    BY <2>2, ChangedRow
  <2> QED
    BY <2>1, <2>3
<1> QED
  BY <1>1, <1>2, SpecSessionInv, PTL
    DEF SessionSpec, LoginSettlesOnce, OneLoginOrNone, SessionSettlesOnce

-------------------------------------------------------------------------------
(* Quota probes. *)

Statuses == {"none", "collecting", "idle", "success", "partial", "failed"}
Owners == Collectors \union {Nobody}
Sources == {"", "active_probe", "mixed", "response_header"}

SnapshotRows ==
    [status : Statuses, source : Sources, observed : Nat, next : Nat, expires : Nat, attempt : Nat,
     owner : Owners, lease : Nat, activity : Nat, consumed : Nat]
ProbeStates == [at : {"idle", "asking", "answered", "dead"}, observed : Nat, watermark : Nat]
Scheduled(h) == <<h, "scheduled">>

QuotaTypeInv ==
    /\ today \in Nat /\ lastUsage \in Nat
    /\ snapshot \in SnapshotRows
    /\ headers \in [observed : Nat, received : Nat]
    /\ probe \in [Probes -> ProbeStates]

\* Activity that the row holds as claimed is what the owner's scheduled probe has claimed: that
\* probe is under way, or its process is dead.
Dead(q) == probe[q].at = "dead"
Holds(q, w) == Asking(q) /\ probe[q].watermark = w
ClaimInRow ==
    \A h \in Collectors : snapshot.owner = h /\ snapshot.activity # 0 =>
        Dead(Scheduled(h)) \/ Holds(Scheduled(h), snapshot.activity)

\* What is claimed is newer than what was used up.
ClaimIsNew == snapshot.activity # 0 => snapshot.activity > snapshot.consumed

\* A process dies with both rounds.
DeadTogether == \A p \in Probes : Dead(Scheduled(p[1])) => Dead(p)

\* Headers come from the past, and a row that nobody has written schedules nothing.
HeadersAreOld == headers.received <= today
EmptyRowIsIdle == snapshot.status = "none" => snapshot.next = 0

QuotaInv ==
    QuotaTypeInv /\ ClaimInRow /\ ClaimIsNew /\ DeadTogether /\ HeadersAreOld /\ EmptyRowIsIdle

LEMMA ScheduledProbe ==
    ASSUME NEW h \in Collectors
    PROVE  /\ Scheduled(h) \in Probes /\ Scheduled(h)[1] = h /\ Scheduled(h)[2] = "scheduled"
           /\ \A p \in Probes : p[1] \in Collectors /\ (p[1] = h /\ p[2] = "scheduled" => p = Scheduled(h))
BY DEF Scheduled, Probes, Rounds

LEMMA QuotaInitInv == QuotaInit => QuotaInv
<1> SUFFICES ASSUME QuotaInit PROVE QuotaInv
  OBVIOUS
<1>1. snapshot = NoSnapshot /\ lastUsage = 0 /\ headers = NoHeaders /\ today = 1
      /\ probe = [p \in Probes |-> Unoccupied]
  BY DEF QuotaInit
<1>2. NoSnapshot \in SnapshotRows /\ NoSnapshot.next = 0 /\ NoSnapshot.activity = 0
  BY DEF NoSnapshot, SnapshotRows, Statuses, Sources, Owners
<1>3. Unoccupied \in ProbeStates /\ Unoccupied.at = "idle"
  BY DEF Unoccupied, ProbeStates
<1>4. headers \in [observed : Nat, received : Nat] /\ headers.received = 0
  BY <1>1 DEF NoHeaders
<1>5. probe \in [Probes -> ProbeStates] /\ \A p \in Probes : ~ Dead(p)
  BY <1>1, <1>3 DEF Dead
<1>6. DeadTogether
  <2>1. \A p \in Probes : p[1] \in Collectors
    BY DEF Probes
  <2> QED
    BY <1>5, <2>1, ScheduledProbe DEF DeadTogether
<1> QED
  BY <1>1, <1>2, <1>4, <1>5, <1>6
    DEF QuotaInv, QuotaTypeInv, ClaimInRow, ClaimIsNew, HeadersAreOld, EmptyRowIsIdle

-------------------------------------------------------------------------------
(* What a step may do to the row, as far as the properties can tell. *)

\* The row keeps what the probes go by; a probe that is due later stays so.
RowKept(snap) ==
    /\ snap \in SnapshotRows
    /\ snap.owner = snapshot.owner /\ snap.activity = snapshot.activity /\ snap.consumed = snapshot.consumed
    /\ snapshot.next > today => snap.next = snapshot.next
    /\ snap.status = "none" => snap = snapshot

\* A process takes the lease, with the activity it claims.
RowClaimed(snap, h, claimed) ==
    /\ snap \in SnapshotRows /\ snap.status # "none"
    /\ snap.owner = h /\ snap.activity = claimed
    /\ snap.consumed = snapshot.consumed /\ snap.next = snapshot.next

\* The lease ends with a probe of its owner.
RowReleased(snap) ==
    /\ snap \in SnapshotRows /\ snap.status # "none" /\ snap.owner = Nobody /\ snap.activity = 0
    /\ snap.consumed = IF snapshot.activity # 0 THEN snapshot.activity ELSE snapshot.consumed

\* The ways a row is written.
LeasedBy(snap, s, t, h, l, w) == [snap EXCEPT !.status = s, !.attempt = t, !.owner = h, !.lease = l, !.activity = w]
Orphaned(snap, s, h, l, w) == [snap EXCEPT !.status = s, !.owner = h, !.lease = l, !.activity = w]
Observed(snap, s, o, t, x, n) ==
    [snap EXCEPT !.status = s, !.source = o, !.observed = t, !.attempt = t, !.expires = x, !.next = n]
Delayed(snap, s, t, x) == [snap EXCEPT !.status = s, !.attempt = t, !.next = x]

LEMMA LeasedRow ==
    ASSUME NEW snap \in SnapshotRows, NEW s \in Statuses, NEW h \in Owners, NEW t \in Nat, NEW l \in Nat, NEW w \in Nat
    PROVE  LET r == LeasedBy(snap, s, t, h, l, w) IN
               /\ r \in SnapshotRows /\ r.status = s /\ r.owner = h /\ r.activity = w
               /\ r.consumed = snap.consumed /\ r.next = snap.next
BY DEF SnapshotRows, LeasedBy

LEMMA OrphanRow ==
    ASSUME NEW snap \in SnapshotRows, NEW s \in Statuses, NEW h \in Owners, NEW l \in Nat, NEW w \in Nat
    PROVE  LET r == Orphaned(snap, s, h, l, w) IN
               /\ r \in SnapshotRows /\ r.status = s /\ r.owner = h /\ r.activity = w
               /\ r.consumed = snap.consumed /\ r.next = snap.next
BY DEF SnapshotRows, Orphaned

LEMMA ReleasedRow ==
    ASSUME NEW snap \in SnapshotRows
    PROVE  /\ Released(snap) \in SnapshotRows
           /\ Released(snap).status = snap.status /\ Released(snap).owner = Nobody /\ Released(snap).activity = 0
           /\ Released(snap).consumed = IF snap.activity # 0 THEN snap.activity ELSE snap.consumed
BY DEF SnapshotRows, Released, Owners

LEMMA ResultRow ==
    ASSUME NEW snap \in SnapshotRows, NEW s \in Statuses, NEW o \in Sources, NEW t \in Nat, NEW x \in Nat, NEW n \in Nat
    PROVE  LET r == Observed(snap, s, o, t, x, n) IN
               /\ r \in SnapshotRows /\ r.status = s
               /\ r.owner = snap.owner /\ r.activity = snap.activity /\ r.consumed = snap.consumed
BY DEF SnapshotRows, Observed

LEMMA FailedRow ==
    ASSUME NEW snap \in SnapshotRows, NEW s \in Statuses, NEW t \in Nat, NEW x \in Nat
    PROVE  LET r == Delayed(snap, s, t, x) IN
               /\ r \in SnapshotRows /\ r.status = s
               /\ r.owner = snap.owner /\ r.activity = snap.activity /\ r.consumed = snap.consumed
BY DEF SnapshotRows, Delayed

LEMMA PreservedRow ==
    ASSUME NEW snap \in SnapshotRows, snapshot \in SnapshotRows, NEW o \in Nat, NEW r \in Nat,
           snap.status = "partial", snapshot.status # "none"
    PROVE  LET p == PreserveProbeSchedule(snap, o, r)
           IN  /\ p \in SnapshotRows /\ p.status # "none"
               /\ p.owner = snap.owner /\ p.activity = snap.activity /\ p.consumed = snap.consumed
               /\ KeepsNext(r) => p.next = snapshot.next
<1> DEFINE nx == IF KeepsNext(r) THEN snapshot.next ELSE snap.next
           at == IF Authoritative \/ LeaseActive(r) \/ snapshot.status = "failed" THEN snapshot.attempt ELSE snap.attempt
           st == IF KeepsResult(r) \/ FreshAndComplete(o) THEN snapshot.status ELSE snap.status
           ex == IF (KeepsResult(r) /\ snapshot.expires # 0) \/ (~KeepsResult(r) /\ FreshAndComplete(o))
                 THEN snapshot.expires ELSE snap.expires
<1>1. nx \in Nat /\ at \in Nat /\ ex \in Nat /\ st \in Statuses /\ st # "none"
  BY DEF SnapshotRows, Statuses
<1>2. PreserveProbeSchedule(snap, o, r) = [snap EXCEPT !.next = nx, !.attempt = at, !.status = st, !.expires = ex]
  BY DEF PreserveProbeSchedule
<1>3. KeepsNext(r) => nx = snapshot.next
  OBVIOUS
<1> HIDE DEF nx, at, st, ex
<1>4. ASSUME NEW p, p = [snap EXCEPT !.next = nx, !.attempt = at, !.status = st, !.expires = ex]
      PROVE  /\ p \in SnapshotRows /\ p.status = st /\ p.next = nx
             /\ p.owner = snap.owner /\ p.activity = snap.activity /\ p.consumed = snap.consumed
  BY <1>1, <1>4 DEF SnapshotRows, Statuses
<1> QED
  BY <1>1, <1>2, <1>3, <1>4

-------------------------------------------------------------------------------
(* What each step does. *)

\* A scheduled probe goes on with what it had claimed, or dies with its process.
ProbeKept(q) ==
    /\ Dead(q) => Dead(q)'
    /\ \A w \in Nat : Holds(q, w) => Dead(q)' \/ Holds(q, w)'

RowChange ==
    \/ /\ RowKept(snapshot')
       /\ \A h \in Collectors : snapshot.owner = h => ProbeKept(Scheduled(h))
    \/ \E p \in Probes, claimed \in Nat :
          /\ RowClaimed(snapshot', p[1], claimed)
          /\ claimed # 0 => p[2] = "scheduled" /\ Holds(p, claimed)' /\ claimed > snapshot.consumed
    \/ /\ snapshot' \in SnapshotRows /\ snapshot'.status # "none"
       /\ snapshot'.owner = Nobody /\ snapshot'.activity = 0
       /\ snapshot'.consumed = snapshot.consumed /\ snapshot'.next = snapshot.next
    \/ \E p \in Probes : Ends(p) /\ Owns(p) /\ RowReleased(snapshot')

LEMMA AnsweredProbe ==
    ASSUME NEW s \in ProbeStates, NEW t \in Nat
    PROVE  LET a == [s EXCEPT !.at = "answered", !.observed = t] IN
               a \in ProbeStates /\ a.at = "answered" /\ a.watermark = s.watermark
BY DEF ProbeStates

LEMMA NewActivity ==
    ASSUME QuotaTypeInv
    PROVE  Watermark \in Nat /\ (Watermark # 0 => Watermark > snapshot.consumed)
<1>1. snapshot.consumed \in Nat /\ snapshot.activity \in Nat /\ today \in Nat /\ lastUsage \in Nat
      /\ ActivityWindow \in Nat
  BY QuotaAssumption DEF QuotaTypeInv, SnapshotRows
<1> DEFINE oldest == IF snapshot.consumed > AfterWindow(today) THEN snapshot.consumed ELSE AfterWindow(today)
<1>2. oldest \in Nat /\ oldest >= snapshot.consumed
  BY <1>1 DEF AfterWindow
<1>3. Since(oldest) \in Nat /\ (Since(oldest) # 0 => Since(oldest) > oldest)
  BY <1>1, <1>2 DEF Since
<1>4. Watermark = IF Since(oldest) = 0 /\ Abandoned THEN snapshot.activity ELSE Since(oldest)
  BY DEF Watermark
<1> HIDE DEF oldest
<1>5. Abandoned => snapshot.activity > snapshot.consumed
  BY DEF Abandoned
<1> QED
  BY <1>1, <1>2, <1>3, <1>4, <1>5

LEMMA QuotaTypes == QuotaTypeInv /\ [QuotaNext]_quotaVars =>
    /\ today' \in Nat /\ today' >= today /\ lastUsage' \in Nat
    /\ headers' \in [observed : Nat, received : Nat]
    /\ headers' # headers => headers'.received \in {0, today}
    /\ probe' \in [Probes -> ProbeStates]
<1> SUFFICES ASSUME QuotaTypeInv, [QuotaNext]_quotaVars
             PROVE  /\ today' \in Nat /\ today' >= today /\ lastUsage' \in Nat
                    /\ headers' \in [observed : Nat, received : Nat]
                    /\ headers' # headers => headers'.received \in {0, today}
                    /\ probe' \in [Probes -> ProbeStates]
  OBVIOUS
<1> USE DEF QuotaTypeInv
<1>0. Unoccupied \in ProbeStates /\ [Unoccupied EXCEPT !.at = "dead"] \in ProbeStates
  BY DEF Unoccupied, ProbeStates
<1>1. ASSUME NEW p \in Probes, ClaimQuotaProbe(p)
      PROVE  UNCHANGED <<today, lastUsage, headers>> /\ probe' \in [Probes -> ProbeStates]
  <2> DEFINE claimed == IF p[2] = "scheduled" THEN Watermark ELSE 0
  <2>1. claimed \in Nat
    BY NewActivity
  <2>2. probe' = [probe EXCEPT ![p] = [at |-> "asking", observed |-> 0, watermark |-> claimed]]
        /\ UNCHANGED <<today, lastUsage, headers>>
    BY <1>1 DEF ClaimQuotaProbe
  <2> HIDE DEF claimed
  <2>3. [at |-> "asking", observed |-> 0, watermark |-> claimed] \in ProbeStates
    BY <2>1 DEF ProbeStates
  <2> QED
    BY <2>2, <2>3
<1>2. ASSUME NEW p \in Probes, ProviderAnswers(p)
      PROVE  UNCHANGED <<today, lastUsage, headers>> /\ probe' \in [Probes -> ProbeStates]
  <2>1. probe' = [probe EXCEPT ![p].at = "answered", ![p].observed = today]
        /\ UNCHANGED <<today, lastUsage, headers>>
    BY <1>2 DEF ProviderAnswers
  <2>2. probe \in [Probes -> ProbeStates] /\ today \in Nat
    OBVIOUS
  <2>3. [probe[p] EXCEPT !.at = "answered", !.observed = today] \in ProbeStates
    BY <2>2, AnsweredProbe
  <2>4. probe' = [probe EXCEPT ![p] = [probe[p] EXCEPT !.at = "answered", !.observed = today]]
    BY <2>1
  <2> QED
    BY <2>1, <2>2, <2>3, <2>4
<1>3. ASSUME NEW p \in Probes, StoreProbe(p) \/ FailProbe(p)
      PROVE  UNCHANGED <<today, lastUsage, headers>> /\ probe' \in [Probes -> ProbeStates]
  <2>1. UNCHANGED <<today, lastUsage, headers>> /\ probe' = [probe EXCEPT ![p] = Unoccupied]
    BY <1>3 DEF StoreProbe, FailProbe
  <2> QED
    BY <1>0, <2>1
<1>9. ASSUME NEW h \in Collectors, ClearOrphan(h) \/ CollectorDies(h)
      PROVE  UNCHANGED <<today, lastUsage, headers>> /\ probe' \in [Probes -> ProbeStates]
  <2>1. CASE ClearOrphan(h)
    BY <2>1 DEF ClearOrphan
  <2>2. CASE CollectorDies(h)
    <3>1. probe' = [q \in Probes |-> IF q[1] = h THEN [Unoccupied EXCEPT !.at = "dead"] ELSE probe[q]]
          /\ UNCHANGED <<today, lastUsage, headers>>
      BY <2>2 DEF CollectorDies
    <3> QED
      BY <1>0, <3>1
  <2> QED
    BY <1>9, <2>1, <2>2
<1>4. CASE StoreUsage
  <2>1. PICK x \in {NoHeaders} \union {[observed |-> o, received |-> today] : o \in 1..today} : headers' = x
    BY <1>4 DEF StoreUsage
  <2>2. headers' \in [observed : Nat, received : Nat] /\ headers'.received \in {0, today}
    BY <2>1 DEF NoHeaders
  <2> QED
    <3>1. lastUsage' = today /\ UNCHANGED <<snapshot, probe, today>>
      BY <1>4 DEF StoreUsage
    <3> QED
      BY <2>2, <3>1
<1>5. CASE StoreHeaders \/ LoseHeaders
  <2>1. headers' = NoHeaders /\ UNCHANGED <<lastUsage, probe, today>>
    BY <1>5 DEF StoreHeaders, LoseHeaders
  <2> QED
    BY <2>1 DEF NoHeaders
<1>6. CASE ProbeClock \/ UNCHANGED quotaVars
  BY <1>6 DEF ProbeClock, quotaVars
<1> QED
  BY <1>1, <1>2, <1>3, <1>9, <1>4, <1>5, <1>6 DEF QuotaNext

LEMMA ProcessesDieWhole == QuotaTypeInv /\ DeadTogether /\ [QuotaNext]_quotaVars => DeadTogether'
<1> SUFFICES ASSUME QuotaTypeInv, DeadTogether, [QuotaNext]_quotaVars,
                    NEW p \in Probes, Dead(Scheduled(p[1]))'
             PROVE  Dead(p)'
  BY DEF DeadTogether
<1>0. probe \in [Probes -> ProbeStates] /\ p[1] \in Collectors
  BY ScheduledProbe DEF QuotaTypeInv, Probes
<1> DEFINE q == Scheduled(p[1])
<1>1. q \in Probes /\ q[1] = p[1]
  BY <1>0, ScheduledProbe
<1> HIDE DEF q
<1>7. Dead(q)' /\ (Dead(q) => Dead(p))
  BY DEF DeadTogether, q
<1>2. ASSUME NEW x \in Probes, NEW s, s.at # "dead", probe[x].at # "dead", probe' = [probe EXCEPT ![x] = s]
      PROVE  Dead(p)'
  BY <1>0, <1>1, <1>2, <1>7 DEF Dead
<1>3. ASSUME NEW x \in Probes, ClaimQuotaProbe(x) \/ StoreProbe(x) \/ FailProbe(x)
      PROVE  Dead(p)'
  <2>1. CASE ClaimQuotaProbe(x)
    <3> DEFINE s == [at |-> "asking", observed |-> 0, watermark |-> IF x[2] = "scheduled" THEN Watermark ELSE 0]
    <3>1. probe' = [probe EXCEPT ![x] = s] /\ probe[x].at = "idle"
      BY <2>1 DEF ClaimQuotaProbe
    <3>2. s.at = "asking"
      OBVIOUS
    <3> HIDE DEF s
    <3> QED
      BY <1>2, <3>1, <3>2
  <2>2. CASE StoreProbe(x) \/ FailProbe(x)
    <3>1. probe' = [probe EXCEPT ![x] = Unoccupied] /\ probe[x].at \in {"asking", "answered"}
      BY <2>2 DEF StoreProbe, FailProbe
    <3> QED
      BY <1>2, <3>1 DEF Unoccupied
  <2> QED
    BY <1>3, <2>1, <2>2
<1>4. ASSUME NEW x \in Probes, ProviderAnswers(x)
      PROVE  Dead(p)'
  <2> DEFINE s == [probe[x] EXCEPT !.at = "answered", !.observed = today]
  <2>1. probe' = [probe EXCEPT ![x] = s] /\ probe[x].at = "asking"
    BY <1>4 DEF ProviderAnswers
  <2>2. s.at = "answered"
    <3>1. probe[x] \in ProbeStates /\ today \in Nat
      BY <1>0 DEF QuotaTypeInv
    <3> QED
      BY <3>1, AnsweredProbe
  <2> HIDE DEF s
  <2> QED
    BY <1>2, <2>1, <2>2
<1>5. ASSUME NEW h \in Collectors, CollectorDies(h)
      PROVE  Dead(p)'
  <2>1. probe' = [x \in Probes |-> IF x[1] = h THEN [Unoccupied EXCEPT !.at = "dead"] ELSE probe[x]]
    BY <1>5 DEF CollectorDies
  <2>2. [Unoccupied EXCEPT !.at = "dead"].at = "dead"
    BY DEF Unoccupied
  <2> QED
    BY <1>0, <1>1, <1>7, <2>1, <2>2 DEF Dead
<1>6. ASSUME UNCHANGED probe
      PROVE  Dead(p)'
  BY <1>6, <1>7 DEF Dead
<1>8. ASSUME NEW h \in Collectors, ClearOrphan(h)
      PROVE  Dead(p)'
  BY <1>6, <1>8 DEF ClearOrphan
<1>9. CASE StoreUsage \/ StoreHeaders \/ LoseHeaders \/ ProbeClock \/ UNCHANGED quotaVars
  BY <1>6, <1>9 DEF StoreUsage, StoreHeaders, LoseHeaders, ProbeClock, quotaVars
<1> QED
  BY <1>3, <1>4, <1>5, <1>8, <1>9 DEF QuotaNext

LEMMA RowChanges == QuotaInv /\ [QuotaNext]_quotaVars => RowChange
<1> SUFFICES ASSUME QuotaInv, [QuotaNext]_quotaVars PROVE RowChange
  OBVIOUS
<1>0. snapshot \in SnapshotRows /\ probe \in [Probes -> ProbeStates] /\ today \in Nat
      /\ headers \in [observed : Nat, received : Nat]
  BY DEF QuotaInv, QuotaTypeInv
<1>1. ASSUME snapshot' = snapshot, \A h \in Collectors : snapshot.owner = h => ProbeKept(Scheduled(h))
      PROVE  RowChange
  BY <1>0, <1>1 DEF RowChange, RowKept
<1>9. ASSUME NEW q, probe'[q] = probe[q]
      PROVE  ProbeKept(q)
  BY <1>9 DEF ProbeKept, Dead, Holds, Asking
<1>2. ASSUME NEW p \in Probes, ClaimQuotaProbe(p)
      PROVE  RowChange
  <2>3. PICK claimed \in Nat : claimed = IF p[2] = "scheduled" THEN Watermark ELSE 0
    BY NewActivity DEF QuotaInv
  <2>0. claimed # 0 => p[2] = "scheduled" /\ claimed > snapshot.consumed
    BY <2>3, NewActivity DEF QuotaInv
  <2>1. /\ snapshot' = LeasedBy(snapshot, "collecting", today, p[1], today + ProbeLease, claimed)
        /\ probe' = [probe EXCEPT ![p] = [at |-> "asking", observed |-> 0, watermark |-> claimed]]
    BY <1>2, <2>3 DEF ClaimQuotaProbe, LeasedBy
  <2>4. Holds(p, claimed)'
    BY <1>0, <2>1 DEF Holds, Asking
  <2> DEFINE until == today + ProbeLease
  <2>10. PICK h \in Collectors : h = p[1]
    BY DEF Probes
  <2>5. until \in Nat /\ "collecting" \in Statuses /\ h \in Owners
    BY <1>0, QuotaAssumption DEF Statuses, Owners
  <2>7. snapshot' = LeasedBy(snapshot, "collecting", today, h, until, claimed)
    BY <2>1, <2>10
  <2> HIDE DEF until
  <2> DEFINE snap == LeasedBy(snapshot, "collecting", today, h, until, claimed)
  <2>8. /\ snap \in SnapshotRows /\ snap.status = "collecting" /\ snap.owner = h /\ snap.activity = claimed
        /\ snap.consumed = snapshot.consumed /\ snap.next = snapshot.next
    <3>1. snapshot \in SnapshotRows /\ today \in Nat
      BY <1>0
    <3> QED
      BY <2>3, <2>5, <3>1, LeasedRow
  <2>9. snapshot' = snap
    BY <2>7
  <2> HIDE DEF snap
  <2>6. RowClaimed(snapshot', p[1], claimed)
    BY <2>8, <2>9, <2>10 DEF RowClaimed
  <2> QED
    BY <2>0, <2>4, <2>6 DEF RowChange
<1>3. ASSUME NEW h \in Collectors, ClearOrphan(h)
      PROVE  RowChange
  <2>1. snapshot' = Orphaned(snapshot, "idle", Nobody, 0, 0)
    BY <1>3 DEF ClearOrphan, Orphaned
  <2>2. "idle" \in Statuses /\ Nobody \in Owners
    BY DEF Statuses, Owners
  <2>3. /\ snapshot' \in SnapshotRows /\ snapshot'.status = "idle" /\ snapshot'.owner = Nobody
        /\ snapshot'.activity = 0
        /\ snapshot'.consumed = snapshot.consumed /\ snapshot'.next = snapshot.next
    BY <1>0, <2>1, <2>2, OrphanRow
  <2> QED
    BY <2>3 DEF RowChange
<1>4. ASSUME NEW p \in Probes, ProviderAnswers(p)
      PROVE  RowChange
  <2> DEFINE s == [probe[p] EXCEPT !.at = "answered", !.observed = today]
  <2>1. /\ probe' = [probe EXCEPT ![p] = s]
        /\ probe[p].at = "asking" /\ snapshot' = snapshot
    BY <1>4 DEF ProviderAnswers
  <2>2. s.at = "answered" /\ s.watermark = probe[p].watermark
    BY <1>0, AnsweredProbe
  <2> HIDE DEF s
  <2>3. ASSUME NEW h \in Collectors
        PROVE  ProbeKept(Scheduled(h))
    <3>1. CASE Scheduled(h) = p
      BY <1>0, <2>1, <2>2, <3>1 DEF ProbeKept, Dead, Holds, Asking
    <3>2. CASE Scheduled(h) # p
      BY <1>0, <1>9, <2>1, <3>2, ScheduledProbe
    <3> QED
      BY <3>1, <3>2
  <2> QED
    BY <1>1, <2>1, <2>3
<1>5. ASSUME NEW p \in Probes, StoreProbe(p) \/ FailProbe(p)
      PROVE  RowChange
  <2>1. probe' = [probe EXCEPT ![p] = Unoccupied] /\ Asking(p)
    BY <1>5 DEF StoreProbe, FailProbe, Asking
  <2>2. Ends(p)
    BY <1>0, <2>1 DEF Ends, Unoccupied
  <2>3. CASE Owns(p)
    <3>1. RowReleased(snapshot')
      <4>1. CASE StoreProbe(p)
        <5> DEFINE t == probe[p].observed
        <5>1. PICK status \in {"success", "partial"}, source \in {"active_probe", "mixed"},
                   expires \in t .. t + Freshness, delay \in {0} \union Backoffs :
                snapshot' = Released(Observed(snapshot, status, source, t, expires, NextProbe(expires, t + delay)))
          BY <2>3, <4>1 DEF StoreProbe, Observed
        <5>2. t \in Nat /\ expires \in Nat /\ t + delay \in Nat
          BY <1>0, QuotaAssumption DEF ProbeStates
        <5>6. NextProbe(expires, t + delay) \in Nat
          BY <5>2 DEF NextProbe
        <5>3. status \in Statuses /\ source \in Sources
          BY DEF Statuses, Sources
        <5> HIDE DEF t
        <5> DEFINE due == NextProbe(expires, t + delay)
                   snap == Observed(snapshot, status, source, t, expires, due)
        <5>5. snapshot' = Released(snap) /\ status # "none" /\ due \in Nat
          BY <5>1, <5>6
        <5> HIDE DEF due
        <5>4. /\ snap \in SnapshotRows /\ snap.status = status
              /\ snap.activity = snapshot.activity /\ snap.consumed = snapshot.consumed
          BY <1>0, <5>2, <5>3, <5>5, ResultRow
        <5> HIDE DEF snap
        <5> QED
          BY <5>4, <5>5, ReleasedRow DEF RowReleased
      <4>2. CASE FailProbe(p)
        <5>1. PICK delay \in Backoffs :
                snapshot' = Released(Delayed(snapshot, "failed", today, today + delay))
          BY <2>3, <4>2 DEF FailProbe, Delayed
        <5>2. today + delay \in Nat /\ "failed" \in Statuses
          BY <1>0, QuotaAssumption DEF Statuses
        <5> DEFINE due == today + delay
                   snap == Delayed(snapshot, "failed", today, due)
        <5>3. due \in Nat /\ snapshot' = Released(snap)
          BY <5>1, <5>2
        <5> HIDE DEF due
        <5>4. /\ snap \in SnapshotRows /\ snap.status = "failed"
              /\ snap.activity = snapshot.activity /\ snap.consumed = snapshot.consumed
          BY <1>0, <5>2, <5>3, FailedRow
        <5> HIDE DEF snap
        <5> QED
          BY <5>3, <5>4, ReleasedRow DEF RowReleased
      <4> QED
        BY <1>5, <4>1, <4>2
    <3> QED
      BY <2>2, <2>3, <3>1 DEF RowChange
  <2>4. CASE ~ Owns(p)
    <3>1. snapshot' = snapshot
      BY <1>5, <2>4 DEF StoreProbe, FailProbe
    <3>2. ASSUME NEW h \in Collectors, snapshot.owner = h
          PROVE  ProbeKept(Scheduled(h))
      <4>1. Scheduled(h) # p
        BY <2>4, <3>2, ScheduledProbe DEF Owns
      <4> QED
        BY <1>0, <1>9, <2>1, <4>1, ScheduledProbe
    <3> QED
      BY <1>1, <3>1, <3>2
  <2> QED
    BY <2>3, <2>4
<1>6. ASSUME NEW h \in Collectors, CollectorDies(h)
      PROVE  RowChange
  <2>1. /\ probe' = [x \in Probes |-> IF x[1] = h THEN [Unoccupied EXCEPT !.at = "dead"] ELSE probe[x]]
        /\ snapshot' = snapshot
    BY <1>6 DEF CollectorDies
  <2>2. [Unoccupied EXCEPT !.at = "dead"].at = "dead"
    BY DEF Unoccupied
  <2>3. ASSUME NEW y \in Collectors
        PROVE  ProbeKept(Scheduled(y))
    <3>1. Scheduled(y) \in Probes
      BY ScheduledProbe
    <3>2. CASE Scheduled(y)[1] = h
      BY <2>1, <2>2, <3>1, <3>2 DEF ProbeKept, Dead
    <3>3. CASE Scheduled(y)[1] # h
      BY <1>9, <2>1, <3>1, <3>3
    <3> QED
      BY <3>2, <3>3
  <2> QED
    BY <1>1, <2>1, <2>3
<1>7. CASE StoreHeaders
  <2>1. probe' = probe
    BY <1>7 DEF StoreHeaders
  <2>4. \A h \in Collectors : snapshot.owner = h => ProbeKept(Scheduled(h))
    BY <1>9, <2>1
  <2> DEFINE o == headers.observed
             r == headers.received
  <2>2. CASE snapshot.observed > o
    BY <1>1, <1>7, <2>4, <2>2 DEF StoreHeaders
  <2>3. CASE ~ (snapshot.observed > o)
    <3>1. PICK source \in {"response_header"} \union (IF Authoritative THEN {"mixed"} ELSE {}) :
            LET snap == Observed(snapshot, "partial", source, o, o + Freshness, o)
            IN  snapshot' = IF snapshot.status = "none" THEN snap ELSE PreserveProbeSchedule(snap, o, r)
      BY <1>7, <2>3 DEF StoreHeaders, Observed
    <3>2. /\ o \in Nat /\ r \in Nat /\ o + Freshness \in Nat /\ r <= today
          /\ source \in Sources /\ "partial" \in Statuses
      <4>1. o \in Nat /\ r \in Nat /\ Freshness \in Nat
        BY <1>0, QuotaAssumption
      <4>2. r <= today
        BY DEF QuotaInv, HeadersAreOld
      <4>3. source \in Sources /\ "partial" \in Statuses
        BY DEF Sources, Statuses
      <4> QED
        BY <4>1, <4>2, <4>3
    <3> DEFINE snap == Observed(snapshot, "partial", source, o, o + Freshness, o)
    <3>3. /\ snap \in SnapshotRows /\ snap.status = "partial"
          /\ snap.owner = snapshot.owner /\ snap.activity = snapshot.activity /\ snap.consumed = snapshot.consumed
      BY <1>0, <3>2, ResultRow
    <3>4. snapshot' = IF snapshot.status = "none" THEN snap ELSE PreserveProbeSchedule(snap, o, r)
      BY <3>1
    <3> HIDE DEF snap, o, r
    <3>5. RowKept(snapshot')
      <4>1. CASE snapshot.status = "none"
        BY <1>0, <3>3, <3>4, <4>1 DEF RowKept, QuotaInv, EmptyRowIsIdle
      <4>2. CASE snapshot.status # "none"
        <5>1. snapshot.next > today => KeepsNext(r)
          BY <1>0, <3>2 DEF KeepsNext, SnapshotRows
        <5>2. snapshot' = PreserveProbeSchedule(snap, o, r)
          BY <3>4, <4>2
        <5> QED
          BY <1>0, <3>2, <3>3, <4>2, <5>1, <5>2, PreservedRow DEF RowKept
      <4> QED
        BY <4>1, <4>2
    <3> QED
      BY <2>4, <3>5 DEF RowChange
  <2> QED
    BY <2>2, <2>3
<1>8. CASE StoreUsage \/ LoseHeaders \/ ProbeClock \/ UNCHANGED quotaVars
  <2>1. UNCHANGED <<snapshot, probe>>
    BY <1>8 DEF StoreUsage, LoseHeaders, ProbeClock, quotaVars
  <2> QED
    BY <1>1, <1>9, <2>1
<1> QED
  BY <1>2, <1>3, <1>4, <1>5, <1>6, <1>7, <1>8 DEF QuotaNext

LEMMA NextQuotaInv == QuotaInv /\ [QuotaNext]_quotaVars => QuotaInv'
<1> SUFFICES ASSUME QuotaInv, [QuotaNext]_quotaVars PROVE QuotaInv'
  OBVIOUS
<1>1. RowChange
  BY RowChanges
<1>2. snapshot \in SnapshotRows /\ snapshot' \in SnapshotRows
  BY <1>1 DEF RowChange, RowKept, RowClaimed, RowReleased, QuotaInv, QuotaTypeInv
<1>3. QuotaTypeInv'
  BY <1>2, QuotaTypes DEF QuotaInv, QuotaTypeInv
<1>4. HeadersAreOld'
  BY QuotaTypes DEF QuotaInv, QuotaTypeInv, HeadersAreOld
<1>5. EmptyRowIsIdle'
  BY <1>1 DEF QuotaInv, EmptyRowIsIdle, RowChange, RowKept, RowClaimed, RowReleased
<1>6. ClaimInRow'
  <2> SUFFICES ASSUME NEW x \in Collectors, snapshot'.owner = x,
                      NEW w, w = snapshot'.activity, w # 0
               PROVE  Dead(Scheduled(x))' \/ Holds(Scheduled(x), w)'
    BY DEF ClaimInRow, Holds
  <2>1. x # Nobody /\ w \in Nat
    BY <1>2, QuotaAssumption DEF Nobody, SnapshotRows
  <2>2. CASE RowKept(snapshot') /\ \A h \in Collectors : snapshot.owner = h => ProbeKept(Scheduled(h))
    <3>1. snapshot.owner = x /\ snapshot.activity = w /\ ProbeKept(Scheduled(x))
      BY <2>2 DEF RowKept
    <3>2. Dead(Scheduled(x)) \/ Holds(Scheduled(x), w)
      BY <3>1 DEF QuotaInv, ClaimInRow
    <3> QED
      BY <2>1, <3>1, <3>2 DEF ProbeKept
  <2>3. ASSUME NEW p \in Probes, NEW claimed \in Nat, RowClaimed(snapshot', p[1], claimed),
               claimed # 0 => p[2] = "scheduled" /\ Holds(p, claimed)' /\ claimed > snapshot.consumed
        PROVE  Holds(Scheduled(x), w)'
    <3>1. w = claimed /\ p[1] = x /\ p[2] = "scheduled"
      BY <2>3 DEF RowClaimed
    <3>2. p = Scheduled(x)
      BY <3>1, ScheduledProbe
    <3> QED
      BY <2>3, <3>1, <3>2
  <2>4. CASE snapshot'.owner = Nobody
    BY <2>1, <2>4
  <2> QED
    BY <1>1, <2>2, <2>3, <2>4 DEF RowChange, RowReleased
<1>7. ClaimIsNew'
  BY <1>1 DEF QuotaInv, ClaimIsNew, RowChange, RowKept, RowClaimed, RowReleased
<1>8. DeadTogether'
  BY ProcessesDieWhole DEF QuotaInv
<1> QED
  BY <1>3, <1>4, <1>5, <1>6, <1>7, <1>8 DEF QuotaInv

\* Activity is used up once, by a probe that ends in the process that claimed it while the
\* scheduled probe that claimed it is under way; and a probe that is due later is rescheduled
\* only by the end of a probe.
THEOREM OnlyProbesConsume == QuotaSpec => ProbesConserved
<1> DEFINE Consumes == snapshot'.consumed # snapshot.consumed =>
                          /\ snapshot'.consumed > snapshot.consumed
                          /\ \E p \in Probes :
                                /\ Ends(p)
                                /\ Asking(<<p[1], "scheduled">>)
                                /\ probe[<<p[1], "scheduled">>].watermark = snapshot'.consumed
           Reschedules == snapshot.next > today /\ snapshot'.next # snapshot.next => \E p \in Probes : Ends(p)
<1>1. QuotaInv /\ [QuotaNext]_quotaVars => Consumes
  <2> SUFFICES ASSUME QuotaInv, RowChange, snapshot'.consumed # snapshot.consumed
               PROVE  /\ snapshot'.consumed > snapshot.consumed
                      /\ \E p \in Probes :
                            /\ Ends(p)
                            /\ Asking(<<p[1], "scheduled">>)
                            /\ probe[<<p[1], "scheduled">>].watermark = snapshot'.consumed
    BY RowChanges
  <2>1. PICK p \in Probes : Ends(p) /\ Owns(p) /\ RowReleased(snapshot')
    BY DEF RowChange, RowKept, RowClaimed
  <2>2. snapshot.activity # 0 /\ snapshot'.consumed = snapshot.activity
    BY <2>1 DEF RowReleased
  <2>3. p[1] \in Collectors /\ snapshot.owner = p[1] /\ Asking(p)
    BY <2>1 DEF Probes, Owns, Ends
  <2>4. ~ Dead(Scheduled(p[1]))
    BY <2>3 DEF QuotaInv, DeadTogether, Dead, Asking
  <2>5. Holds(Scheduled(p[1]), snapshot.activity)
    BY <2>2, <2>3, <2>4 DEF QuotaInv, ClaimInRow
  <2> QED
    BY <2>1, <2>2, <2>5 DEF QuotaInv, ClaimIsNew, Holds, Scheduled
<1>2. QuotaInv /\ [QuotaNext]_quotaVars => Reschedules
  <2> SUFFICES ASSUME RowChange, snapshot.next > today, snapshot'.next # snapshot.next
               PROVE  \E p \in Probes : Ends(p)
    BY RowChanges
  <2> QED
    BY DEF RowChange, RowKept, RowClaimed
<1>3. QuotaInv /\ [QuotaNext]_quotaVars => QuotaInv'
  BY NextQuotaInv
<1> QED
  BY <1>1, <1>2, <1>3, QuotaInitInv, PTL
    DEF QuotaSpec, ProbesConserved, ActivityConsumedByItsOwner, PendingProbeKept

-------------------------------------------------------------------------------
(* Token refresh. *)

TokenPairs == [kind : {"tokens"}, access : Nat, grant : Grants]
JournalRows == {Absent, Fenced, Denied} \cup {Pending(w) : w \in Workers} \cup TokenPairs

LEMMA JournalKinds ==
    ASSUME NEW r \in JournalRows
    PROVE  /\ r.kind \in {"absent", "stage", "rejected", "pending", "tokens"}
           /\ r.kind = "tokens" => r \in TokenPairs
           /\ r.kind = "absent" <=> r = Absent
BY DEF JournalRows, TokenPairs, Absent, Fenced, Denied, Pending

LEMMA LeastNat ==
    ASSUME NEW S \in SUBSET Nat, S # {}
    PROVE  \E x \in S : \A y \in S : x <= y
<1>1. \E x \in S : \A y \in S : ~(<<y, x>> \in OpToRel(<, Nat))
  BY NatLessThanWellFounded, WFMin
<1>2. PICK x \in S : \A y \in S : ~(<<y, x>> \in OpToRel(<, Nat))
  BY <1>1
<1>3. ASSUME NEW y \in S PROVE x <= y
  <2>1. <<y, x>> \in Nat \X Nat => ~(y < x)
    BY <1>2 DEF OpToRel
  <2> QED
    BY <2>1
<1> QED
  BY <1>3

LEMMA LastGrant ==
    ASSUME NEW S \in SUBSET Grants, S # {}
    PROVE  \E x \in S : \A y \in S : y <= x
<1> DEFINE Distances == {MaxTokens - x : x \in S}
<1>1. MaxTokens \in Nat /\ \A x \in S : x \in Nat /\ x >= 1 /\ x <= MaxTokens
  BY RefreshAssumption DEF Grants
<1>2. Distances \subseteq Nat /\ Distances # {}
  BY <1>1
<1> HIDE DEF Distances
<1>3. PICK d \in Distances : \A e \in Distances : d <= e
  BY <1>2, LeastNat
<1>4. PICK x \in S : d = MaxTokens - x
  BY DEF Distances
<1>5. ASSUME NEW y \in S PROVE y <= x
  <2>1. d <= MaxTokens - y
    BY <1>3 DEF Distances
  <2> QED
    BY <1>1, <1>4, <2>1
<1> QED
  BY <1>5

\* The chain of receipts that starts at a claimed grant ends at a claimed grant: every link leads
\* to a later one.
LEMMA ReceiptChainEnds ==
    ASSUME journal \in [Grants -> JournalRows], NEW g \in Grants, journal[g] # Absent
    PROVE  ReceiptChain(g) \in JournalRows \ {Absent}
<1> DEFINE Goes(x) == /\ journal[x].kind = "tokens" /\ journal[x].grant > x
                      /\ journal[journal[x].grant] # Absent
           Follow(f, x) == IF Goes(x) THEN f[journal[x].grant] ELSE x
           Chain(f) == [x \in Grants |-> Follow(f, x)]
           last[x \in Grants] == IF /\ journal[x].kind = "tokens" /\ journal[x].grant > x
                                    /\ journal[journal[x].grant] # Absent
                                 THEN last[journal[x].grant] ELSE x
           RightFrom(f, n) == \A x \in Grants : x >= n => f[x] = Follow(f, x)
           Wrong == {n \in Grants : ~ \E f \in [Grants -> Grants] : RightFrom(f, n)}
           Lost == {x \in Grants : ~(last[x] \in Grants /\ (journal[x] # Absent => journal[last[x]] # Absent))}
<1>1. ReceiptChain(g) = journal[last[g]]
  BY DEF ReceiptChain
<1>2. (\E f : f = Chain(f)) => last = Chain(last)
  OBVIOUS
<1> HIDE DEF last
<1>3. MaxTokens \in Nat /\ MaxTokens >= 1 /\ Grants \in SUBSET Nat
      /\ \A x : x \in Grants <=> (x \in Nat /\ x >= 1 /\ x <= MaxTokens)
  BY RefreshAssumption DEF Grants
<1>4. \A x \in Grants : Goes(x) => journal[x].grant \in Grants /\ journal[x].grant > x
  BY JournalKinds DEF TokenPairs
<1> HIDE DEF Goes
<1>5. Wrong = {}
  <2> SUFFICES ASSUME Wrong # {} PROVE FALSE
    OBVIOUS
  <2>1. PICK n \in Wrong : \A m \in Wrong : m <= n
    BY LastGrant
  <2>2. \E f \in [Grants -> Grants] : RightFrom(f, n + 1)
    <3>1. CASE n + 1 \in Grants
      <4>1. n + 1 \notin Wrong
        BY <1>3, <2>1
      <4> QED
        BY <3>1, <4>1
    <3>2. CASE n + 1 \notin Grants
      <4>1. [x \in Grants |-> x] \in [Grants -> Grants]
        OBVIOUS
      <4>2. \A x \in Grants : ~(x >= n + 1)
        BY <1>3, <3>2
      <4> QED
        BY <4>1, <4>2
    <3> QED
      BY <3>1, <3>2
  <2>3. PICK f \in [Grants -> Grants] : RightFrom(f, n + 1)
    BY <2>2
  <2> DEFINE e == [f EXCEPT ![n] = Follow(f, n)]
  <2>4. Follow(f, n) \in Grants
    BY <1>4
  <2>5. e \in [Grants -> Grants] /\ e[n] = Follow(f, n) /\ \A x \in Grants : x # n => e[x] = f[x]
    BY <2>4
  <2> HIDE DEF e
  <2>6. ASSUME NEW x \in Grants, x >= n PROVE e[x] = Follow(e, x)
    <3>1. e[x] = Follow(f, x)
      BY <1>3, <2>3, <2>5, <2>6
    <3>2. Goes(x) => e[journal[x].grant] = f[journal[x].grant]
      BY <1>3, <1>4, <2>5, <2>6
    <3> QED
      BY <3>1, <3>2
  <2> QED
    BY <2>5, <2>6
<1>6. \E f \in [Grants -> Grants] : f = Chain(f)
  <2>1. 1 \in Grants
    BY <1>3
  <2>2. PICK f \in [Grants -> Grants] : RightFrom(f, 1)
    BY <1>5, <2>1
  <2>3. \A x \in Grants : f[x] = Follow(f, x)
    BY <1>3, <2>2
  <2>4. f = [x \in Grants |-> f[x]]
    OBVIOUS
  <2> QED
    BY <2>3, <2>4
<1>7. last = Chain(last)
  BY <1>2, <1>6
<1>8. \A x \in Grants : last[x] = Follow(last, x)
  BY <1>7
<1>9. Lost = {}
  <2> SUFFICES ASSUME Lost # {} PROVE FALSE
    OBVIOUS
  <2>1. PICK n \in Lost : \A m \in Lost : m <= n
    BY LastGrant
  <2>2. CASE ~Goes(n)
    BY <1>8, <2>1, <2>2
  <2>3. CASE Goes(n)
    <3>1. journal[n].grant \in Grants /\ journal[n].grant \notin Lost /\ journal[journal[n].grant] # Absent
      BY <1>3, <1>4, <2>1, <2>3 DEF Goes
    <3>2. last[n] = last[journal[n].grant]
      BY <1>8, <2>3
    <3> QED
      BY <2>1, <3>1, <3>2
  <2> QED
    BY <2>2, <2>3
<1> QED
  BY <1>1, <1>9

RefreshSpec == RefreshInit /\ [][RefreshNext]_refreshVars

Fences == {"none", "observed", "submitted"}
RefreshRows == [disabled : BOOLEAN, access : Nat, grant : Grants, label : Nat,
                lease : Workers \cup {NoLease}, backoff : BOOLEAN, fence : Fences]
ClaimedRows == [access : Nat, grant : Grants, label : Nat, fence : Fences]
ExchangeOutcomes == {NoOutcome, Denied, NotSent} \cup {Unknown(f) : f \in Fences} \cup TokenPairs
Refreshes == [pc : {"idle", "leased", "joined", "owner", "sent", "returned"}, base : ClaimedRows,
              outcome : ExchangeOutcomes, overtaken : BOOLEAN]

RefreshTypes ==
    /\ row \in [Auths -> RefreshRows]
    /\ journal \in [Grants -> JournalRows]
    /\ worker \in [Workers -> Refreshes]
    /\ issued \in Nat /\ submitted \in [Grants -> Nat]
    /\ edited \in [Auths -> Nat] /\ faults \in Nat

\* A refresh lives in its Home's memory.
RefreshesAtHome == \A w \in Workers : worker[w].pc # "idle" => w[1] \in homesUp

\* Who may still submit a grant has it claimed in the journal, and has not submitted it.
ClaimsInJournal ==
    \A w \in Workers :
        /\ worker[w].pc \in {"owner", "sent"} => journal[worker[w].base.grant] = Pending(w)
        /\ worker[w].pc = "owner" => submitted[worker[w].base.grant] = 0

\* A grant that was submitted is in the journal; before the first Home started it may be known by
\* a row's fence only.
SubmittedInJournal ==
    \A g \in Grants :
        submitted[g] # 0 /\ journal[g] = Absent =>
            homesUp = {} /\ \E a \in Auths : row[a].fence = "submitted" /\ row[a].grant = g

\* A row whose lease is still the refresh's own holds the tokens the refresh began with, or the
\* operator put another access token there since.
LeasedAsClaimed ==
    \A w \in Workers :
        worker[w].pc # "idle" /\ row[w[2]].lease = w =>
            IF worker[w].overtaken THEN row[w[2]].access = 0 /\ worker[w].base.access # 0
            ELSE /\ row[w[2]].access = worker[w].base.access
                 /\ row[w[2]].grant = worker[w].base.grant

RefreshInv ==
    /\ RefreshTypes /\ RefreshesAtHome
    /\ ClaimsInJournal /\ SubmittedInJournal /\ GrantSubmittedOnce
    /\ LeasedAsClaimed /\ OperatorsWin

LEMMA WorkersRefreshAuths ==
    /\ \A w \in Workers : w[2] \in Auths /\ w[1] \in Homes /\ w # NoLease
    /\ MaxTokens \in Nat /\ 1 \in Grants /\ Grants \in SUBSET Nat
    /\ \A g : g \in Grants <=> g \in Nat /\ g >= 1 /\ g <= MaxTokens
<1>1. \A w \in Workers : w = <<w[1], w[2]>> /\ w[2] \in Auths
  BY RefreshAssumption DEF Workers
<1>2. \A x, y : <<x, y>> # <<>>
  OBVIOUS
<1>3. \A w \in Workers : w # NoLease
  BY <1>1, <1>2 DEF NoLease
<1> QED
  BY <1>1, <1>3, RefreshAssumption DEF Homes, Grants

LEMMA RowShape ==
    ASSUME NEW r \in RefreshRows
    PROVE  /\ r.disabled \in BOOLEAN /\ r.access \in Nat /\ r.grant \in Grants /\ r.label \in Nat
           /\ r.lease \in Workers \cup {NoLease} /\ r.backoff \in BOOLEAN /\ r.fence \in Fences
           /\ Leased(r) \in ClaimedRows
           /\ Leased(r).access = r.access /\ Leased(r).grant = r.grant
BY DEF RefreshRows, ClaimedRows, Leased

LEMMA JobShape ==
    ASSUME NEW d \in Refreshes
    PROVE  /\ d.pc \in {"idle", "leased", "joined", "owner", "sent", "returned"}
           /\ d.base \in ClaimedRows /\ d.base.grant \in Grants /\ d.base.access \in Nat
           /\ d.base.label \in Nat /\ d.outcome \in ExchangeOutcomes /\ d.overtaken \in BOOLEAN
BY DEF Refreshes, ClaimedRows

LEMMA FreshRowShape ==
    ASSUME NEW fence \in Fences
    PROVE  /\ FreshRow(fence) \in RefreshRows /\ FreshRow(fence).lease = NoLease
           /\ FreshRow(fence).label = 0 /\ FreshRow(fence).grant = 1 /\ FreshRow(fence).fence = fence
BY WorkersRefreshAuths DEF FreshRow, RefreshRows

LEMMA IdleShape == IdleWorker \in Refreshes /\ IdleWorker.pc = "idle" /\ ~IdleWorker.overtaken
<1>1. Leased(FreshRow("none")) \in ClaimedRows
  BY FreshRowShape, RowShape DEF Fences
<1> QED
  BY <1>1 DEF IdleWorker, Refreshes, ExchangeOutcomes

LEMMA RefreshInitInv == RefreshInit => RefreshInv
<1> SUFFICES ASSUME RefreshInit PROVE RefreshInv
  OBVIOUS
<1>1. PICK legacy \in {"none", "submitted"}, old \in Auths :
        /\ row = [a \in Auths |-> FreshRow(IF a = old THEN legacy ELSE "none")]
        /\ submitted = [g \in Grants |-> IF g = 1 /\ legacy = "submitted" THEN 1 ELSE 0]
  BY DEF RefreshInit
<1>2. \A a \in Auths : /\ row[a] \in RefreshRows /\ row[a].label = 0 /\ row[a].grant = 1
                       /\ a = old => row[a].fence = legacy
  BY <1>1, FreshRowShape DEF Fences
<1>3. worker = [w \in Workers |-> IdleWorker] /\ journal = [g \in Grants |-> Absent] /\ homesUp = {}
      /\ issued = 1 /\ edited = [a \in Auths |-> 0] /\ clobbered = {} /\ faults = 0
  BY DEF RefreshInit
<1>4. RefreshTypes
  BY <1>1, <1>2, <1>3, IdleShape DEF RefreshTypes, JournalRows
<1>5. RefreshesAtHome /\ ClaimsInJournal /\ LeasedAsClaimed
  BY <1>3, IdleShape DEF RefreshesAtHome, ClaimsInJournal, LeasedAsClaimed
<1>6. SubmittedInJournal /\ GrantSubmittedOnce
  BY <1>1, <1>2, <1>3 DEF SubmittedInJournal, GrantSubmittedOnce
<1>7. OperatorsWin
  BY <1>2, <1>3 DEF OperatorsWin, EditsSurviveRefresh, ReplacedTokensSurvive
<1> QED
  BY <1>4, <1>5, <1>6, <1>7 DEF RefreshInv

(***************************************************************************)
(* A refresh that goes on keeps what it began with.                        *)
(***************************************************************************)
GoesOn(w) ==
    \/ worker'[w].pc = "idle"
    \/ /\ worker[w].pc # "idle" /\ worker'[w].base = worker[w].base
       /\ worker'[w].overtaken = worker[w].overtaken

LEMMA HomesKept ==
    ASSUME RefreshInv, \A w \in Workers : GoesOn(w), homesUp' = homesUp
    PROVE  RefreshesAtHome'
BY DEF RefreshInv, RefreshesAtHome, GoesOn

LEMMA LeasesKept ==
    ASSUME RefreshInv, \A w \in Workers : GoesOn(w), UNCHANGED row
    PROVE  LeasedAsClaimed'
BY DEF RefreshInv, LeasedAsClaimed, GoesOn

LEMMA OperatorsKept ==
    ASSUME RefreshInv, UNCHANGED <<edited, clobbered>>,
           \A a \in Auths : row'[a].label = row[a].label
    PROVE  OperatorsWin'
BY DEF RefreshInv, OperatorsWin, EditsSurviveRefresh, ReplacedTokensSurvive

\* Nobody begins to own a grant, and the owners' grants are left alone.
LEMMA ClaimsKept ==
    ASSUME RefreshInv,
           \A w \in Workers :
              /\ worker'[w].pc = "sent" => worker[w].pc = "sent"
              /\ worker'[w].pc = "owner" => worker[w].pc = "owner"
              /\ worker'[w].pc \in {"owner", "sent"} =>
                    /\ worker'[w].base.grant = worker[w].base.grant
                    /\ journal'[worker[w].base.grant] = journal[worker[w].base.grant],
           UNCHANGED submitted
    PROVE  ClaimsInJournal'
BY DEF RefreshInv, ClaimsInJournal

LEMMA SubmissionsKept ==
    ASSUME RefreshInv, homesUp # {}, UNCHANGED <<submitted, homesUp>>,
           \A g \in Grants : journal'[g] = Absent => journal[g] = Absent
    PROVE  SubmittedInJournal' /\ GrantSubmittedOnce'
BY DEF RefreshInv, SubmittedInJournal, GrantSubmittedOnce

LEMMA ReturnShape ==
    ASSUME worker \in [Workers -> Refreshes], NEW w \in Workers, worker[w].pc # "idle",
           NEW outcome \in ExchangeOutcomes, Return(w, outcome)
    PROVE  /\ worker' \in [Workers -> Refreshes] /\ worker'[w].pc = "returned"
           /\ \A x \in Workers : /\ GoesOn(x)
                                 /\ worker'[x].base = worker[x].base
                                 /\ worker'[x].pc \in {worker[x].pc, "returned"}
<1>1. ASSUME NEW d \in Refreshes
      PROVE  LET e == [d EXCEPT !.pc = "returned", !.outcome = outcome]
             IN /\ e \in Refreshes /\ e.pc = "returned" /\ e.base = d.base
                /\ e.overtaken = d.overtaken
  BY DEF Refreshes
<1>2. w \in Sharing(w)
  BY DEF Sharing
<1>3. ASSUME NEW x \in Workers
      PROVE  /\ worker'[x] \in Refreshes /\ GoesOn(x) /\ worker'[x].base = worker[x].base
             /\ worker'[x].pc \in {worker[x].pc, "returned"}
             /\ x \in Sharing(w) => worker'[x].pc = "returned"
  <2>1. CASE x \in Sharing(w)
    <3>1. worker'[x] = [worker[x] EXCEPT !.pc = "returned", !.outcome = outcome]
      BY <2>1 DEF Return
    <3>2. worker[x].pc # "idle"
      BY <2>1 DEF Sharing
    <3> QED
      BY <1>1, <3>1, <3>2 DEF GoesOn
  <2>2. CASE x \notin Sharing(w)
    <3>1. worker'[x] = worker[x]
      BY <2>2 DEF Return
    <3> QED
      BY <2>2, <3>1 DEF GoesOn
  <2> QED
    BY <2>1, <2>2
<1>4. worker' \in [Workers -> Refreshes]
  BY <1>3 DEF Return
<1> QED
  BY <1>2, <1>3, <1>4

LEMMA GoesOnAt ==
    ASSUME worker \in [Workers -> Refreshes], NEW w \in Workers, worker[w].pc # "idle",
           NEW pc \in {"joined", "leased", "owner", "sent"},
           worker' = [worker EXCEPT ![w].pc = pc]
    PROVE  /\ worker' \in [Workers -> Refreshes] /\ worker'[w].pc = pc
           /\ \A x \in Workers : /\ GoesOn(x)
                                 /\ worker'[x].base = worker[x].base
                                 /\ x # w => worker'[x].pc = worker[x].pc
<1>1. ASSUME NEW d \in Refreshes
      PROVE  LET e == [d EXCEPT !.pc = pc]
             IN e \in Refreshes /\ e.pc = pc /\ e.base = d.base /\ e.overtaken = d.overtaken
  BY DEF Refreshes
<1>2. worker'[w] = [worker[w] EXCEPT !.pc = pc] /\ \A x \in Workers : x # w => worker'[x] = worker[x]
  OBVIOUS
<1>3. worker' \in [Workers -> Refreshes]
  BY <1>1
<1> QED
  BY <1>1, <1>2, <1>3 DEF GoesOn

LEMMA WhoRefreshesIsUp ==
    ASSUME RefreshInv, NEW w \in Workers, worker[w].pc # "idle"
    PROVE  /\ homesUp # {} /\ worker[w].base.grant \in Grants
           /\ worker[w].outcome \in ExchangeOutcomes
BY JobShape DEF RefreshInv, RefreshTypes, RefreshesAtHome

LEMMA ReceiptsReadAreOutcomes ==
    ASSUME journal \in [Grants -> JournalRows], NEW g \in Grants, journal[g] # Absent
    PROVE  ReadReceipt(g) \subseteq ExchangeOutcomes
<1> DEFINE end == ReceiptChain(g)
<1>1. end \in JournalRows /\ end # Absent
  BY ReceiptChainEnds
<1>2. ReadReceipt(g) = CASE end.kind = "pending"  -> {Unknown("observed")}
                         [] end.kind = "stage"    -> {Unknown("submitted")}
                         [] end.kind = "rejected" -> {Denied}
                         [] end.kind = "tokens"   -> {end, Unknown("submitted")}
  BY DEF ReadReceipt
<1> HIDE DEF end
<1>3. end.kind \in {"pending", "stage", "rejected", "tokens"} /\ (end.kind = "tokens" => end \in TokenPairs)
  BY <1>1, JournalKinds
<1>4. /\ end.kind = "pending" => ReadReceipt(g) = {Unknown("observed")}
      /\ end.kind = "stage" => ReadReceipt(g) = {Unknown("submitted")}
      /\ end.kind = "rejected" => ReadReceipt(g) = {Denied}
      /\ end.kind = "tokens" => ReadReceipt(g) = {end, Unknown("submitted")}
  BY <1>2
<1> QED
  BY <1>3, <1>4 DEF ExchangeOutcomes, Fences

LEMMA UnknownIsOutcome == \A f \in Fences : Unknown(f) \in ExchangeOutcomes
BY DEF ExchangeOutcomes

LEMMA StartExchangeInv ==
    ASSUME RefreshInv, NEW w \in Workers, StartExchange(w)
    PROVE  RefreshInv'
<1> DEFINE g == worker[w].base.grant
           j == IF worker[w].base.fence = "submitted" /\ journal[g] = Absent
                THEN [journal EXCEPT ![g] = Fenced] ELSE journal
<1>1. RefreshTypes /\ worker[w].pc = "leased" /\ homesUp # {} /\ g \in Grants
      /\ UNCHANGED <<row, homesUp, issued, submitted, edited, clobbered, faults, refreshing>>
  BY WhoRefreshesIsUp DEF StartExchange, RefreshInv
<1>2. /\ j \in [Grants -> JournalRows] /\ \A x \in Grants : j[x] = Absent => journal[x] = Absent
      /\ \A x \in Grants : journal[x] # Absent => j[x] = journal[x]
  BY <1>1 DEF RefreshTypes, JournalRows, Fenced, Absent
<1>3. \/ worker' = [worker EXCEPT ![w].pc = "joined"] /\ journal' = j
      \/ /\ j[g] = Absent /\ journal' = [j EXCEPT ![g] = Pending(w)]
         /\ worker' = [worker EXCEPT ![w].pc = "owner"]
      \/ /\ journal' = j
         /\ \E outcome \in IF journal[g] = Absent THEN {Unknown("submitted")} ELSE ReadReceipt(g) :
               Return(w, outcome)
  BY DEF StartExchange
<1> HIDE DEF j
<1>4. \A x \in Workers : Pending(x) # Absent
  BY DEF Pending, Absent
<1>5. \A x \in Workers : worker[x].pc \in {"owner", "sent"} => journal[worker[x].base.grant] # Absent
  BY <1>4 DEF RefreshInv, ClaimsInJournal
<1>6. CASE worker' = [worker EXCEPT ![w].pc = "joined"] /\ journal' = j
  <2>1. /\ worker' \in [Workers -> Refreshes] /\ worker'[w].pc = "joined"
        /\ \A x \in Workers : /\ GoesOn(x) /\ worker'[x].base = worker[x].base
                              /\ x # w => worker'[x].pc = worker[x].pc
    BY <1>1, <1>6, GoesOnAt DEF RefreshTypes
  <2>2. RefreshTypes'
    BY <1>1, <1>2, <1>6, <2>1 DEF RefreshTypes
  <2>3. ClaimsInJournal'
    <3> SUFFICES ASSUME NEW x \in Workers, worker'[x].pc \in {"owner", "sent"}
                 PROVE  /\ worker[x].pc = worker'[x].pc /\ worker'[x].base.grant = worker[x].base.grant
                        /\ journal'[worker[x].base.grant] = journal[worker[x].base.grant]
      BY <1>1, ClaimsKept
    <3>1. worker[x].pc = worker'[x].pc
      BY <2>1
    <3>2. worker[x].base.grant \in Grants
      BY <1>1, JobShape DEF RefreshTypes
    <3> QED
      BY <1>2, <1>5, <1>6, <2>1, <3>1, <3>2
  <2>4. SubmittedInJournal' /\ GrantSubmittedOnce'
    BY <1>1, <1>2, <1>6, SubmissionsKept
  <2> QED
    BY <1>1, <2>1, <2>2, <2>3, <2>4, HomesKept, LeasesKept, OperatorsKept DEF RefreshInv
<1>7. CASE /\ j[g] = Absent /\ journal' = [j EXCEPT ![g] = Pending(w)]
           /\ worker' = [worker EXCEPT ![w].pc = "owner"]
  <2>1. /\ worker' \in [Workers -> Refreshes] /\ worker'[w].pc = "owner"
        /\ \A x \in Workers : /\ GoesOn(x) /\ worker'[x].base = worker[x].base
                              /\ x # w => worker'[x].pc = worker[x].pc
    BY <1>1, <1>7, GoesOnAt DEF RefreshTypes
  <2>2. journal'[g] = Pending(w) /\ \A x \in Grants : x # g => journal'[x] = j[x]
    BY <1>1, <1>2, <1>7
  <2>3. RefreshTypes'
    BY <1>1, <1>2, <1>7, <2>1 DEF RefreshTypes, JournalRows
  <2>4. journal[g] = Absent /\ submitted[g] = 0
    BY <1>1, <1>2, <1>7 DEF RefreshInv, SubmittedInJournal
  <2>5. ClaimsInJournal'
    <3> SUFFICES ASSUME NEW x \in Workers, worker'[x].pc \in {"owner", "sent"}
                 PROVE  /\ journal'[worker'[x].base.grant] = Pending(x)
                        /\ worker'[x].pc = "owner" => submitted'[worker'[x].base.grant] = 0
      BY DEF ClaimsInJournal
    <3>1. CASE x = w
      BY <1>1, <2>1, <2>2, <2>4, <3>1
    <3>2. CASE x # w
      <4>1. worker[x].pc = worker'[x].pc /\ worker[x].base.grant \in Grants
        BY <1>1, <2>1, <3>2, JobShape DEF RefreshTypes
      <4>2. worker[x].base.grant # g /\ journal[worker[x].base.grant] = Pending(x)
        BY <1>4, <2>4, <4>1 DEF RefreshInv, ClaimsInJournal
      <4>3. journal'[worker[x].base.grant] = Pending(x)
        BY <1>2, <1>4, <2>2, <4>1, <4>2
      <4> QED
        BY <1>1, <2>1, <4>1, <4>3 DEF RefreshInv, ClaimsInJournal
    <3> QED
      BY <3>1, <3>2
  <2>6. SubmittedInJournal' /\ GrantSubmittedOnce'
    BY <1>1, <1>2, <1>4, <2>2, SubmissionsKept
  <2> QED
    BY <1>1, <2>1, <2>3, <2>5, <2>6, HomesKept, LeasesKept, OperatorsKept DEF RefreshInv
<1>8. ASSUME journal' = j,
             NEW outcome \in IF journal[g] = Absent THEN {Unknown("submitted")} ELSE ReadReceipt(g),
             Return(w, outcome)
      PROVE  RefreshInv'
  <2>1. outcome \in ExchangeOutcomes
    BY <1>1, <1>8, ReceiptsReadAreOutcomes, UnknownIsOutcome DEF RefreshTypes, Fences
  <2>2. /\ worker' \in [Workers -> Refreshes] /\ worker'[w].pc = "returned"
        /\ \A x \in Workers : /\ GoesOn(x) /\ worker'[x].base = worker[x].base
                              /\ worker'[x].pc \in {worker[x].pc, "returned"}
    BY <1>1, <1>8, <2>1, ReturnShape DEF RefreshTypes
  <2>3. RefreshTypes'
    BY <1>1, <1>2, <1>8, <2>2 DEF RefreshTypes
  <2>4. ClaimsInJournal'
    <3> SUFFICES ASSUME NEW x \in Workers, worker'[x].pc \in {"owner", "sent"}
                 PROVE  /\ worker[x].pc = worker'[x].pc /\ worker'[x].base.grant = worker[x].base.grant
                        /\ journal'[worker[x].base.grant] = journal[worker[x].base.grant]
      BY <1>1, ClaimsKept
    <3>1. worker[x].pc = worker'[x].pc
      BY <2>2
    <3>2. worker[x].base.grant \in Grants
      BY <1>1, JobShape DEF RefreshTypes
    <3> QED
      BY <1>2, <1>5, <1>8, <2>2, <3>1, <3>2
  <2>5. SubmittedInJournal' /\ GrantSubmittedOnce'
    BY <1>1, <1>2, <1>8, SubmissionsKept
  <2> QED
    BY <1>1, <2>2, <2>3, <2>4, <2>5, HomesKept, LeasesKept, OperatorsKept DEF RefreshInv
<1> QED
  BY <1>3, <1>6, <1>7, <1>8

\* The end of an exchange: the others' claims in the journal stay.
LEMMA ReturnedInv ==
    ASSUME RefreshInv, NEW w \in Workers, worker[w].pc # "idle",
           NEW outcome \in ExchangeOutcomes, Return(w, outcome),
           journal' \in [Grants -> JournalRows], issued' \in Nat,
           \A x \in Workers : x # w /\ worker[x].pc \in {"owner", "sent"} =>
               journal'[worker[x].base.grant] = journal[worker[x].base.grant],
           \A g \in Grants : journal'[g] = Absent => journal[g] = Absent \/ submitted[g] = 0,
           UNCHANGED <<row, homesUp, submitted, edited, clobbered, faults>>
    PROVE  RefreshInv'
<1>1. RefreshTypes /\ homesUp # {}
  BY WhoRefreshesIsUp DEF RefreshInv
<1>2. /\ worker' \in [Workers -> Refreshes] /\ worker'[w].pc = "returned"
      /\ \A x \in Workers : /\ GoesOn(x) /\ worker'[x].base = worker[x].base
                            /\ worker'[x].pc \in {worker[x].pc, "returned"}
  BY <1>1, ReturnShape DEF RefreshTypes
<1>3. RefreshTypes'
  BY <1>1, <1>2 DEF RefreshTypes
<1>4. ClaimsInJournal'
  BY <1>2, ClaimsKept
<1>5. SubmittedInJournal' /\ GrantSubmittedOnce'
  BY <1>1 DEF RefreshInv, SubmittedInJournal, GrantSubmittedOnce
<1> QED
  BY <1>2, <1>3, <1>4, <1>5, HomesKept, LeasesKept, OperatorsKept DEF RefreshInv

LEMMA JournalClaimFailsInv ==
    ASSUME RefreshInv, NEW w \in Workers, JournalClaimFails(w)
    PROVE  RefreshInv'
<1> DEFINE g == worker[w].base.grant
<1>1. RefreshTypes /\ worker[w].pc = "leased" /\ g \in Grants
      /\ UNCHANGED <<row, homesUp, issued, submitted, edited, clobbered, faults>>
      /\ Return(w, Unknown("observed"))
  BY WhoRefreshesIsUp DEF JournalClaimFails, RefreshInv
<1>2. journal' = journal \/ journal' = [journal EXCEPT ![g] = IF @ = Absent THEN Pending(w) ELSE @]
  BY DEF JournalClaimFails
<1>3. /\ journal' \in [Grants -> JournalRows]
      /\ \A x \in Grants : journal[x] # Absent => journal'[x] = journal[x]
      /\ \A x \in Grants : journal'[x] = Absent => journal[x] = Absent
  BY <1>1, <1>2 DEF RefreshTypes, JournalRows, Pending, Absent
<1>4. \A x \in Workers : worker[x].pc \in {"owner", "sent"} =>
         journal[worker[x].base.grant] # Absent /\ worker[x].base.grant \in Grants
  <2>1. \A x \in Workers : Pending(x) # Absent
    BY DEF Pending, Absent
  <2>2. \A x \in Workers : worker[x].base.grant \in Grants
    BY <1>1, JobShape DEF RefreshTypes
  <2> QED
    BY <2>1, <2>2 DEF RefreshInv, ClaimsInJournal
<1>5. Unknown("observed") \in ExchangeOutcomes
  BY UnknownIsOutcome DEF Fences
<1> QED
  BY <1>1, <1>3, <1>4, <1>5, ReturnedInv DEF RefreshTypes

LEMMA SubmitInv ==
    ASSUME RefreshInv, NEW w \in Workers, Submit(w)
    PROVE  RefreshInv'
<1> DEFINE g == worker[w].base.grant
<1>1. RefreshTypes /\ worker[w].pc = "owner" /\ homesUp # {} /\ g \in Grants
      /\ submitted' = [submitted EXCEPT ![g] = @ + 1] /\ worker' = [worker EXCEPT ![w].pc = "sent"]
      /\ UNCHANGED <<row, journal, homesUp, issued, edited, clobbered, faults>>
  BY WhoRefreshesIsUp DEF Submit, RefreshInv
<1>2. /\ worker' \in [Workers -> Refreshes] /\ worker'[w].pc = "sent"
      /\ \A x \in Workers : /\ GoesOn(x) /\ worker'[x].base = worker[x].base
                            /\ x # w => worker'[x].pc = worker[x].pc
  BY <1>1, GoesOnAt DEF RefreshTypes
<1>3. journal[g] = Pending(w) /\ submitted[g] = 0
  BY <1>1 DEF RefreshInv, ClaimsInJournal
<1>4. submitted' \in [Grants -> Nat] /\ submitted'[g] = 1
      /\ \A x \in Grants : x # g => submitted'[x] = submitted[x]
  BY <1>1, <1>3 DEF RefreshTypes
<1>5. RefreshTypes'
  BY <1>1, <1>2, <1>4 DEF RefreshTypes
<1>6. ClaimsInJournal'
  <2> SUFFICES ASSUME NEW x \in Workers, worker'[x].pc \in {"owner", "sent"}
               PROVE  /\ journal[worker[x].base.grant] = Pending(x)
                      /\ worker'[x].pc = "owner" => submitted'[worker[x].base.grant] = 0
    BY <1>1, <1>2 DEF ClaimsInJournal
  <2>1. CASE x = w
    BY <1>2, <1>3, <2>1
  <2>2. CASE x # w
    <3>1. worker[x].pc = worker'[x].pc /\ worker[x].base.grant \in Grants
      BY <1>1, <1>2, <2>2, JobShape DEF RefreshTypes
    <3>2. journal[worker[x].base.grant] = Pending(x)
      BY <3>1 DEF RefreshInv, ClaimsInJournal
    <3>3. worker[x].base.grant # g
      BY <1>3, <2>2, <3>2 DEF Pending
    <3> QED
      BY <1>4, <3>1, <3>2, <3>3 DEF RefreshInv, ClaimsInJournal
  <2> QED
    BY <2>1, <2>2
<1>7. SubmittedInJournal' /\ GrantSubmittedOnce'
  <2>1. journal[g] # Absent
    BY <1>3 DEF Pending, Absent
  <2> QED
    BY <1>1, <1>4, <2>1 DEF RefreshInv, SubmittedInJournal, GrantSubmittedOnce
<1> QED
  BY <1>1, <1>2, <1>5, <1>6, <1>7, HomesKept, LeasesKept, OperatorsKept DEF RefreshInv

LEMMA NotSubmittedInv ==
    ASSUME RefreshInv, NEW w \in Workers, NotSubmitted(w)
    PROVE  RefreshInv'
<1> DEFINE g == worker[w].base.grant
<1>1. RefreshTypes /\ worker[w].pc = "owner" /\ homesUp # {} /\ g \in Grants
      /\ UNCHANGED <<row, homesUp, issued, submitted, edited, clobbered, faults>>
  BY WhoRefreshesIsUp DEF NotSubmitted, RefreshInv
<1>2. \/ /\ journal' = [journal EXCEPT ![g] = Absent]
         /\ worker' = [worker EXCEPT ![w].pc = "leased"] \/ Return(w, NotSent)
      \/ journal' = journal /\ Return(w, Unknown("observed"))
  BY DEF NotSubmitted
<1>3. journal[g] = Pending(w) /\ submitted[g] = 0
  BY <1>1 DEF RefreshInv, ClaimsInJournal
<1>4. \A x \in Workers : x # w /\ worker[x].pc \in {"owner", "sent"} =>
         worker[x].base.grant # g /\ worker[x].base.grant \in Grants
  <2>1. \A x \in Workers : x # w => Pending(x) # Pending(w)
    BY DEF Pending
  <2>2. \A x \in Workers : worker[x].base.grant \in Grants
    BY <1>1, JobShape DEF RefreshTypes
  <2> QED
    BY <1>3, <2>1, <2>2 DEF RefreshInv, ClaimsInJournal
<1>5. /\ journal' \in [Grants -> JournalRows]
      /\ \A x \in Grants : x # g => journal'[x] = journal[x]
  BY <1>1, <1>2 DEF RefreshTypes, JournalRows
<1>6. CASE \E outcome \in {NotSent, Unknown("observed")} : Return(w, outcome)
  <2>1. NotSent \in ExchangeOutcomes /\ Unknown("observed") \in ExchangeOutcomes
    BY UnknownIsOutcome DEF Fences, ExchangeOutcomes
  <2>2. PICK outcome \in ExchangeOutcomes : Return(w, outcome)
    BY <1>6, <2>1
  <2> QED
    BY <1>1, <1>3, <1>4, <1>5, <2>2, ReturnedInv DEF RefreshTypes
<1>7. CASE worker' = [worker EXCEPT ![w].pc = "leased"]
  <2>1. /\ worker' \in [Workers -> Refreshes] /\ worker'[w].pc = "leased"
        /\ \A x \in Workers : /\ GoesOn(x) /\ worker'[x].base = worker[x].base
                              /\ x # w => worker'[x].pc = worker[x].pc
    BY <1>1, <1>7, GoesOnAt DEF RefreshTypes
  <2>2. RefreshTypes'
    BY <1>1, <1>5, <2>1 DEF RefreshTypes
  <2>3. ClaimsInJournal'
    <3> SUFFICES ASSUME NEW x \in Workers, worker'[x].pc \in {"owner", "sent"}
                 PROVE  /\ worker[x].pc = worker'[x].pc /\ worker'[x].base.grant = worker[x].base.grant
                        /\ journal'[worker[x].base.grant] = journal[worker[x].base.grant]
      BY <1>1, ClaimsKept
    <3>1. x # w /\ worker[x].pc = worker'[x].pc
      BY <2>1
    <3> QED
      BY <1>4, <1>5, <2>1, <3>1
  <2>4. SubmittedInJournal' /\ GrantSubmittedOnce'
    BY <1>1, <1>3, <1>5 DEF RefreshInv, SubmittedInJournal, GrantSubmittedOnce
  <2> QED
    BY <1>1, <2>1, <2>2, <2>3, <2>4, HomesKept, LeasesKept, OperatorsKept DEF RefreshInv
<1> QED
  BY <1>2, <1>6, <1>7

LEMMA RespondInv ==
    ASSUME RefreshInv, NEW w \in Workers, Respond(w)
    PROVE  RefreshInv'
<1> DEFINE g == worker[w].base.grant
<1>1. RefreshTypes /\ worker[w].pc = "sent" /\ homesUp # {} /\ g \in Grants
      /\ UNCHANGED <<row, homesUp, submitted, edited, clobbered, faults>>
  BY WhoRefreshesIsUp DEF Respond, RefreshInv
<1>2. PICK receipt \in Receipts(g) :
        /\ issued' = IF receipt.kind = "tokens" THEN issued + 1 ELSE issued
        /\ \/ /\ journal' = [journal EXCEPT ![g] = receipt]
              /\ Return(w, IF receipt = Fenced THEN Unknown("submitted") ELSE receipt)
           \/ /\ journal' = journal
              /\ Return(w, Unknown("submitted"))
  BY DEF Respond
<1>3. receipt \in TokenPairs \cup {Denied, Fenced}
  <2>1. issued \in Nat
    BY <1>1 DEF RefreshTypes
  <2>2. ASSUME issued < MaxTokens
        PROVE  Tokens(issued + 1, issued + 1) \in TokenPairs /\ Tokens(issued + 1, g) \in TokenPairs
    BY <1>1, <2>1, <2>2, WorkersRefreshAuths DEF TokenPairs, Tokens
  <2> QED
    BY <1>2, <2>2 DEF Receipts
<1>4. receipt \in JournalRows /\ receipt # Absent
  BY <1>3 DEF JournalRows, TokenPairs, Absent, Denied, Fenced
<1>5. receipt = Fenced \/ receipt \in ExchangeOutcomes
  BY <1>3 DEF ExchangeOutcomes
<1>6. issued' \in Nat
  BY <1>1, <1>2 DEF RefreshTypes
<1>7. \A x \in Workers : x # w /\ worker[x].pc \in {"owner", "sent"} =>
         worker[x].base.grant # g /\ worker[x].base.grant \in Grants
  <2>1. \A x \in Workers : x # w => Pending(x) # Pending(w)
    BY DEF Pending
  <2>2. \A x \in Workers : worker[x].base.grant \in Grants
    BY <1>1, JobShape DEF RefreshTypes
  <2> QED
    BY <1>1, <2>1, <2>2 DEF RefreshInv, ClaimsInJournal
<1>8. /\ journal' \in [Grants -> JournalRows]
      /\ \A x \in Grants : x # g => journal'[x] = journal[x]
      /\ \A x \in Grants : journal'[x] = Absent => journal[x] = Absent
  BY <1>1, <1>2, <1>4 DEF RefreshTypes
<1>9. PICK outcome \in ExchangeOutcomes : Return(w, outcome)
  <2>1. Unknown("submitted") \in ExchangeOutcomes
    BY UnknownIsOutcome DEF Fences
  <2> QED
    BY <1>2, <1>5, <2>1
<1> QED
  BY <1>1, <1>6, <1>7, <1>8, <1>9, ReturnedInv

(***************************************************************************)
(* finalizeRefreshLease: what the outcome may do to the row.               *)
(***************************************************************************)
FinalizeJobs == [lease : Workers, base : ClaimedRows, outcome : ExchangeOutcomes, overtaken : BOOLEAN]

LEMMA OutcomeShape ==
    ASSUME NEW outcome \in ExchangeOutcomes
    PROVE  /\ outcome.kind = "tokens" => outcome.access \in Nat /\ outcome.grant \in Grants
           /\ outcome.kind = "unknown" => outcome.fence \in Fences
BY DEF ExchangeOutcomes, TokenPairs, NoOutcome, Denied, NotSent, Unknown

LEMMA FenceUpdate ==
    ASSUME NEW r \in RefreshRows, NEW fence \in Fences
    PROVE  /\ [r EXCEPT !.fence = fence] \in RefreshRows
           /\ [r EXCEPT !.fence = fence].access = r.access /\ [r EXCEPT !.fence = fence].grant = r.grant
           /\ [r EXCEPT !.fence = fence].label = r.label /\ [r EXCEPT !.fence = fence].lease = r.lease
BY DEF RefreshRows

LEMMA LeaseUpdate ==
    ASSUME NEW r \in RefreshRows
    PROVE  LET q == [r EXCEPT !.lease = NoLease]
           IN /\ q \in RefreshRows /\ q.access = r.access /\ q.grant = r.grant
              /\ q.label = r.label /\ q.lease = NoLease
BY DEF RefreshRows

LEMMA BackoffUpdate ==
    ASSUME NEW r \in RefreshRows, NEW backoff \in BOOLEAN
    PROVE  LET q == [r EXCEPT !.backoff = backoff]
           IN /\ q \in RefreshRows /\ q.access = r.access /\ q.grant = r.grant
              /\ q.label = r.label /\ q.lease = r.lease /\ q.fence = r.fence
BY DEF RefreshRows

LEMMA DisabledUpdate ==
    ASSUME NEW r \in RefreshRows
    PROVE  /\ LET q == [r EXCEPT !.disabled = TRUE, !.backoff = FALSE]
              IN /\ q \in RefreshRows /\ q.label = r.label /\ q.lease = r.lease
           /\ LET q == [r EXCEPT !.disabled = ~@]
              IN /\ q \in RefreshRows /\ q.access = r.access /\ q.grant = r.grant
                 /\ q.label = r.label /\ q.lease = r.lease
BY DEF RefreshRows

LEMMA MergedOutcome ==
    ASSUME NEW r \in RefreshRows, NEW job \in FinalizeJobs
    PROVE  LET q == MergeOutcome(r, job)
           IN /\ q \in RefreshRows /\ q.access = r.access /\ q.grant = r.grant
              /\ q.label = r.label /\ q.lease = r.lease
<1>1. job.outcome \in ExchangeOutcomes
  BY DEF FinalizeJobs
<1>2. \/ MergeOutcome(r, job) = r
      \/ job.outcome.kind = "unknown" /\ MergeOutcome(r, job) = [r EXCEPT !.fence = job.outcome.fence]
  BY DEF MergeOutcome
<1>3. job.outcome.kind = "unknown" => job.outcome.fence \in Fences
  BY <1>1, OutcomeShape
<1> QED
  BY <1>2, <1>3, FenceUpdate

LEMMA MergedRefresh ==
    ASSUME NEW r \in RefreshRows, NEW job \in FinalizeJobs
    PROVE  LET q == MergeOutcomeOfRefresh(r, job)
           IN q \in RefreshRows /\ q.label = r.label /\ q.lease = r.lease
<1>1. job.outcome \in ExchangeOutcomes /\ job.base.label \in Nat /\ job.base \in ClaimedRows
  BY DEF FinalizeJobs, ClaimedRows
<1>2. CASE job.outcome.kind = "tokens"
  <2> DEFINE l == MergeField(r.label, job.base.label, job.base.label)
             a == MergeField(r.access, job.base.access, job.outcome.access)
             g == MergeField(r.grant, job.base.grant, job.outcome.grant)
             f == IF job.outcome.grant = r.grant THEN r.fence ELSE "none"
  <2>1. MergeOutcomeOfRefresh(r, job) =
            [r EXCEPT !.label = l, !.access = a, !.grant = g, !.fence = f, !.backoff = TRUE]
    BY <1>2 DEF MergeOutcomeOfRefresh
  <2>2. l = r.label /\ l \in Nat /\ a \in Nat /\ g \in Grants /\ f \in Fences
    BY <1>1, <1>2, OutcomeShape, RowShape DEF MergeField, Fences
  <2> HIDE DEF l, a, g, f
  <2> DEFINE q == MergeOutcomeOfRefresh(r, job)
  <2>3. q = [r EXCEPT !.label = l, !.access = a, !.grant = g, !.fence = f, !.backoff = TRUE]
    BY <2>1
  <2> HIDE DEF q
  <2>4. q \in RefreshRows /\ q.label = l /\ q.lease = r.lease
    BY <2>2, <2>3 DEF RefreshRows
  <2> QED
    BY <2>2, <2>4 DEF q
<1>3. CASE job.outcome.kind = "rejected"
  <2>1. MergeOutcomeOfRefresh(r, job) = [r EXCEPT !.disabled = TRUE, !.backoff = FALSE]
    BY <1>3 DEF MergeOutcomeOfRefresh
  <2> QED
    BY <2>1, DisabledUpdate
<1>4. CASE job.outcome.kind \notin {"tokens", "rejected"}
  <2>1. MergeOutcomeOfRefresh(r, job) = [r EXCEPT !.backoff = TRUE]
    BY <1>4 DEF MergeOutcomeOfRefresh
  <2> QED
    BY <2>1, BackoffUpdate
<1> QED
  BY <1>2, <1>3, <1>4

LEMMA FinalizedShape ==
    ASSUME NEW r \in RefreshRows, NEW job \in FinalizeJobs
    PROVE  LET q == Finalized(r, job)
           IN /\ q \in RefreshRows /\ q.label = r.label
              /\ r.lease # job.lease => q = r
              /\ r.lease = job.lease => q.lease = NoLease
              /\ r.access # job.base.access => q.access = r.access /\ q.grant = r.grant
<1> DEFINE cleared == [MergeOutcome(r, job) EXCEPT !.lease = NoLease]
<1>1. /\ cleared \in RefreshRows /\ cleared.access = r.access /\ cleared.grant = r.grant
      /\ cleared.label = r.label /\ cleared.lease = NoLease
  <2> DEFINE m == MergeOutcome(r, job)
  <2>1. m \in RefreshRows /\ m.access = r.access /\ m.grant = r.grant /\ m.label = r.label
    BY MergedOutcome
  <2> HIDE DEF m
  <2>2. LET q == [m EXCEPT !.lease = NoLease]
        IN /\ q \in RefreshRows /\ q.access = m.access /\ q.grant = m.grant
           /\ q.label = m.label /\ q.lease = NoLease
    BY <2>1, LeaseUpdate
  <2> QED
    BY <2>1, <2>2 DEF m
<1>2. Finalized(r, job) =
        IF r.lease # job.lease THEN r
        ELSE IF r.disabled THEN cleared
        ELSE IF r.access # job.base.access \/ r.grant # job.base.grant
             THEN [cleared EXCEPT !.backoff = FALSE]
        ELSE MergeOutcomeOfRefresh(cleared, job)
  BY DEF Finalized
<1> HIDE DEF cleared
<1>3. LET q == [cleared EXCEPT !.backoff = FALSE]
      IN /\ q \in RefreshRows /\ q.access = r.access /\ q.grant = r.grant
         /\ q.label = r.label /\ q.lease = NoLease
  BY <1>1, BackoffUpdate
<1>4. LET q == MergeOutcomeOfRefresh(cleared, job)
      IN q \in RefreshRows /\ q.label = r.label /\ q.lease = NoLease
  BY <1>1, MergedRefresh
<1> QED
  BY <1>1, <1>2, <1>3, <1>4

LEMMA ClaimLeaseInv ==
    ASSUME RefreshInv, NEW w \in Workers, ClaimLease(w)
    PROVE  RefreshInv'
<1> DEFINE a == w[2]
           claimed == [row[a] EXCEPT !.lease = w, !.backoff = TRUE]
           job == [IdleWorker EXCEPT !.pc = "leased", !.base = Leased(row[a])]
<1>1. /\ RefreshTypes /\ a \in Auths /\ w[1] \in homesUp /\ worker[w].pc = "idle"
      /\ UNCHANGED <<journal, homesUp, issued, submitted, edited, clobbered, faults>>
  BY WorkersRefreshAuths DEF ClaimLease, RefreshInv
<1>2. row' = [row EXCEPT ![a].lease = w, ![a].backoff = TRUE] /\ worker' = [worker EXCEPT ![w] = job]
  BY DEF ClaimLease
<1>3. row[a] \in RefreshRows
  BY <1>1 DEF RefreshTypes
<1>4. /\ claimed \in RefreshRows /\ claimed.lease = w /\ claimed.label = row[a].label
      /\ claimed.access = row[a].access /\ claimed.grant = row[a].grant
  BY <1>3 DEF RefreshRows
<1>5. /\ job \in Refreshes /\ job.pc = "leased" /\ ~job.overtaken
      /\ job.base.access = row[a].access /\ job.base.grant = row[a].grant
  <2> DEFINE base == Leased(row[a])
  <2>1. base \in ClaimedRows /\ base.access = row[a].access /\ base.grant = row[a].grant
    BY <1>3, RowShape
  <2> HIDE DEF base
  <2>2. [IdleWorker EXCEPT !.pc = "leased", !.base = base] \in Refreshes
    BY <2>1, IdleShape DEF Refreshes
  <2>3. /\ [IdleWorker EXCEPT !.pc = "leased", !.base = base].pc = "leased"
        /\ [IdleWorker EXCEPT !.pc = "leased", !.base = base].base = base
        /\ ~[IdleWorker EXCEPT !.pc = "leased", !.base = base].overtaken
    BY IdleShape DEF Refreshes
  <2> QED
    BY <2>1, <2>2, <2>3 DEF base
<1> HIDE DEF claimed, job
<1>6. row'[a] = claimed /\ \A b \in Auths : b # a => row'[b] = row[b]
  BY <1>1, <1>2 DEF claimed, RefreshTypes
<1>7. worker'[w] = job /\ \A x \in Workers : x # w => worker'[x] = worker[x]
  BY <1>1, <1>2 DEF RefreshTypes
<1>8. RefreshTypes'
  <2>1. row' \in [Auths -> RefreshRows]
    <3>1. row \in [Auths -> RefreshRows] /\ row' = [row EXCEPT ![a] = claimed]
      BY <1>1, <1>2 DEF RefreshTypes, claimed
    <3> QED
      BY <1>4, <3>1
  <2>2. worker' \in [Workers -> Refreshes]
    <3>1. worker \in [Workers -> Refreshes]
      BY <1>1 DEF RefreshTypes
    <3> QED
      BY <1>2, <1>5, <3>1
  <2> QED
    BY <1>1, <2>1, <2>2 DEF RefreshTypes
<1>9. RefreshesAtHome'
  BY <1>1, <1>7 DEF RefreshInv, RefreshesAtHome
<1>10. ClaimsInJournal'
  BY <1>1, <1>5, <1>7 DEF RefreshInv, ClaimsInJournal
<1>11. SubmittedInJournal' /\ GrantSubmittedOnce'
  BY <1>1 DEF RefreshInv, SubmittedInJournal, GrantSubmittedOnce
<1>12. LeasedAsClaimed'
  <2> SUFFICES ASSUME NEW x \in Workers, worker'[x].pc # "idle", row'[x[2]].lease = x
               PROVE  IF worker'[x].overtaken THEN row'[x[2]].access = 0 /\ worker'[x].base.access # 0
                      ELSE /\ row'[x[2]].access = worker'[x].base.access
                           /\ row'[x[2]].grant = worker'[x].base.grant
    BY DEF LeasedAsClaimed
  <2>1. CASE x = w
    BY <1>4, <1>5, <1>6, <1>7, <2>1
  <2>2. CASE x # w
    <3>1. x[2] \in Auths /\ x[2] # a
      BY <1>4, <1>6, <2>2, WorkersRefreshAuths
    <3> QED
      BY <1>6, <1>7, <2>2, <3>1 DEF RefreshInv, LeasedAsClaimed
  <2> QED
    BY <2>1, <2>2
<1>13. OperatorsWin'
  BY <1>1, <1>4, <1>6, OperatorsKept
<1> QED
  BY <1>8, <1>9, <1>10, <1>11, <1>12, <1>13 DEF RefreshInv

LEMMA FinalizeInv ==
    ASSUME RefreshInv, NEW w \in Workers, Finalize(w)
    PROVE  RefreshInv'
<1> DEFINE a == w[2]
           job == Job(w)
           r == Finalized(row[a], job)
<1>1. /\ RefreshTypes /\ a \in Auths /\ worker[w].pc = "returned" /\ homesUp # {}
      /\ UNCHANGED <<journal, homesUp, issued, submitted, edited, faults>>
      /\ worker' = [worker EXCEPT ![w] = IdleWorker]
  BY WorkersRefreshAuths, WhoRefreshesIsUp DEF Finalize, RefreshInv
<1>2. /\ row' = [row EXCEPT ![a] = Finalized(@, job)]
      /\ clobbered' = IF /\ job.overtaken
                         /\ <<row'[a].access, row'[a].grant>> # <<row[a].access, row[a].grant>>
                      THEN clobbered \cup {a} ELSE clobbered
  BY DEF Finalize, FinalizeRow
<1>3. /\ job \in FinalizeJobs /\ job.lease = w /\ job.base = worker[w].base
      /\ job.overtaken = worker[w].overtaken
  BY <1>1, JobShape DEF FinalizeJobs, Job, RefreshTypes
<1> HIDE DEF job
<1>4. row[a] \in RefreshRows
  BY <1>1 DEF RefreshTypes
<1>5. /\ r \in RefreshRows /\ r.label = row[a].label
      /\ row[a].lease # w => r = row[a]
      /\ row[a].lease = w => r.lease = NoLease
      /\ row[a].access # worker[w].base.access => r.access = row[a].access /\ r.grant = row[a].grant
  BY <1>3, <1>4, FinalizedShape
<1>6. row'[a] = r /\ \A b \in Auths : b # a => row'[b] = row[b]
  BY <1>1, <1>2 DEF RefreshTypes
<1> HIDE DEF r
<1>7. worker'[w] = IdleWorker /\ \A x \in Workers : x # w => worker'[x] = worker[x]
  BY <1>1 DEF RefreshTypes
<1>8. RefreshTypes'
  <2>1. row' \in [Auths -> RefreshRows]
    BY <1>1, <1>2, <1>5, <1>6 DEF RefreshTypes
  <2>2. worker' \in [Workers -> Refreshes]
    BY <1>1, <1>7, IdleShape DEF RefreshTypes
  <2> QED
    BY <1>1, <2>1, <2>2 DEF RefreshTypes
<1>9. RefreshesAtHome'
  BY <1>1, <1>7, IdleShape DEF RefreshInv, RefreshesAtHome
<1>10. ClaimsInJournal'
  BY <1>1, <1>7, IdleShape DEF RefreshInv, ClaimsInJournal
<1>11. SubmittedInJournal' /\ GrantSubmittedOnce'
  BY <1>1 DEF RefreshInv, SubmittedInJournal, GrantSubmittedOnce
<1>12. LeasedAsClaimed'
  <2> SUFFICES ASSUME NEW x \in Workers, worker'[x].pc # "idle", row'[x[2]].lease = x
               PROVE  worker'[x] = worker[x] /\ row'[x[2]] = row[x[2]]
    BY DEF RefreshInv, LeasedAsClaimed
  <2>1. x # w /\ worker'[x] = worker[x]
    BY <1>7, IdleShape
  <2>2. x[2] \in Auths /\ x # NoLease
    BY WorkersRefreshAuths
  <2> QED
    BY <1>5, <1>6, <2>1, <2>2
<1>13. clobbered' = clobbered
  <2> SUFFICES ASSUME worker[w].overtaken PROVE r.access = row[a].access /\ r.grant = row[a].grant
    BY <1>2, <1>3, <1>6
  <2>1. row[a].lease = w => row[a].access # worker[w].base.access
    BY <1>1 DEF RefreshInv, LeasedAsClaimed
  <2> QED
    BY <1>5, <2>1
<1>14. OperatorsWin'
  BY <1>1, <1>5, <1>6, <1>13, OperatorsKept
<1> QED
  BY <1>8, <1>9, <1>10, <1>11, <1>12, <1>14 DEF RefreshInv

LEMMA FinalizeExpiresInv ==
    ASSUME RefreshInv, NEW w \in Workers, FinalizeExpires(w)
    PROVE  RefreshInv'
<1>1. /\ RefreshTypes /\ worker[w].pc = "returned" /\ homesUp # {}
      /\ worker' = [worker EXCEPT ![w] = IdleWorker]
      /\ UNCHANGED <<row, journal, homesUp, issued, submitted, edited, clobbered, faults>>
  BY WhoRefreshesIsUp DEF FinalizeExpires, RefreshInv
<1>2. worker'[w] = IdleWorker /\ \A x \in Workers : x # w => worker'[x] = worker[x]
  BY <1>1 DEF RefreshTypes
<1>3. RefreshTypes'
  BY <1>1, <1>2, IdleShape DEF RefreshTypes
<1>4. RefreshesAtHome' /\ ClaimsInJournal' /\ LeasedAsClaimed'
  BY <1>1, <1>2, IdleShape DEF RefreshInv, RefreshesAtHome, ClaimsInJournal, LeasedAsClaimed
<1>5. SubmittedInJournal' /\ GrantSubmittedOnce'
  BY <1>1 DEF RefreshInv, SubmittedInJournal, GrantSubmittedOnce
<1> QED
  BY <1>1, <1>3, <1>4, <1>5, OperatorsKept DEF RefreshInv

(***************************************************************************)
(* Homes that start and crash.                                             *)
(***************************************************************************)
LEMMA StartHomeInv ==
    ASSUME RefreshInv, NEW h \in Homes, StartHome(h)
    PROVE  RefreshInv'
<1>1. /\ RefreshTypes /\ journal' = Migrated(journal) /\ homesUp' = homesUp \cup {h}
      /\ UNCHANGED <<row, worker, issued, submitted, edited, clobbered, faults>>
  BY DEF StartHome, RefreshInv
<1>2. /\ journal' \in [Grants -> JournalRows]
      /\ \A g \in Grants : journal[g] # Absent => journal'[g] = journal[g]
      /\ \A g \in Grants : journal'[g] = Absent =>
            journal[g] = Absent /\ ~ \E a \in Auths : row[a].fence = "submitted" /\ row[a].grant = g
  <2>1. Fenced \in JournalRows /\ Fenced # Absent
    BY DEF JournalRows, Fenced, Absent
  <2> QED
    BY <1>1, <2>1 DEF Migrated, RefreshTypes
<1>3. RefreshTypes'
  BY <1>1, <1>2 DEF RefreshTypes
<1>4. RefreshesAtHome' /\ LeasedAsClaimed'
  BY <1>1 DEF RefreshInv, RefreshesAtHome, LeasedAsClaimed
<1>5. ClaimsInJournal'
  <2>1. \A x \in Workers : worker[x].base.grant \in Grants
    BY <1>1, JobShape DEF RefreshTypes
  <2>2. \A x \in Workers : Pending(x) # Absent
    BY DEF Pending, Absent
  <2> QED
    BY <1>1, <1>2, <2>1, <2>2 DEF RefreshInv, ClaimsInJournal
<1>6. SubmittedInJournal' /\ GrantSubmittedOnce'
  BY <1>1, <1>2 DEF RefreshInv, SubmittedInJournal, GrantSubmittedOnce
<1> QED
  BY <1>1, <1>3, <1>4, <1>5, <1>6, OperatorsKept DEF RefreshInv

LEMMA CrashHomeInv ==
    ASSUME RefreshInv, NEW h \in Homes, CrashHome(h)
    PROVE  RefreshInv'
<1>1. /\ RefreshTypes /\ h \in homesUp /\ homesUp' = homesUp \ {h} /\ faults' = faults + 1
      /\ worker' = [w \in Workers |-> IF w[1] = h THEN IdleWorker ELSE worker[w]]
      /\ UNCHANGED <<row, journal, issued, submitted, edited, clobbered>>
  BY DEF CrashHome, RefreshInv
<1>2. \A x \in Workers : /\ x[1] = h => worker'[x] = IdleWorker
                         /\ x[1] # h => worker'[x] = worker[x]
  BY <1>1
<1>3. RefreshTypes'
  BY <1>1, <1>2, IdleShape DEF RefreshTypes
<1>4. RefreshesAtHome'
  BY <1>1, <1>2, IdleShape DEF RefreshInv, RefreshesAtHome
<1>5. ClaimsInJournal' /\ LeasedAsClaimed'
  BY <1>1, <1>2, IdleShape DEF RefreshInv, ClaimsInJournal, LeasedAsClaimed
<1>6. SubmittedInJournal' /\ GrantSubmittedOnce'
  BY <1>1 DEF RefreshInv, SubmittedInJournal, GrantSubmittedOnce
<1> QED
  BY <1>1, <1>3, <1>4, <1>5, <1>6, OperatorsKept DEF RefreshInv

(***************************************************************************)
(* The operator's changes of one row.  The refreshes under way are told    *)
(* apart by whether their tokens are replaced.                             *)
(***************************************************************************)
\* Only the row of a changes; a refresh that still holds its lease afterwards is only marked.
RewritesRow(a, r) ==
    /\ r \in RefreshRows /\ row' = [row EXCEPT ![a] = r]
    /\ worker' = worker \/ Overtake(a)
    /\ homesUp # {} \/ (r.fence = row[a].fence /\ r.grant = row[a].grant)
    /\ edited' \in [Auths -> Nat] /\ (\A b \in Auths : b # a => edited'[b] = edited[b])
    /\ r.label = edited'[a] /\ faults' \in Nat
    /\ \A w \in Workers : w[2] = a /\ worker[w].pc # "idle" /\ r.lease = w =>
          IF worker'[w].overtaken THEN r.access = 0 /\ worker[w].base.access # 0
          ELSE r.access = worker[w].base.access /\ r.grant = worker[w].base.grant
    /\ UNCHANGED <<journal, homesUp, issued, submitted, clobbered>>

LEMMA RewritesRowInv ==
    ASSUME RefreshInv, NEW a \in Auths, NEW r, RewritesRow(a, r)
    PROVE  RefreshInv'
<1> USE DEF RewritesRow
<1>1. RefreshTypes
  BY DEF RefreshInv
<1>2. row'[a] = r /\ row' \in [Auths -> RefreshRows] /\ \A b \in Auths : b # a => row'[b] = row[b]
  BY <1>1 DEF RefreshTypes
<1>3. /\ worker' \in [Workers -> Refreshes]
      /\ \A x \in Workers : /\ worker'[x].pc = worker[x].pc /\ worker'[x].base = worker[x].base
                            /\ x[2] # a => worker'[x] = worker[x]
  <2>1. ASSUME NEW d \in Refreshes
        PROVE  LET e == [d EXCEPT !.overtaken = TRUE]
               IN e \in Refreshes /\ e.pc = d.pc /\ e.base = d.base
    BY DEF Refreshes
  <2>2. CASE worker' = worker
    BY <1>1, <2>2 DEF RefreshTypes
  <2>3. CASE Overtake(a)
    <3>1. ASSUME NEW x \in Workers
          PROVE  /\ worker'[x] \in Refreshes /\ worker'[x].pc = worker[x].pc
                 /\ worker'[x].base = worker[x].base /\ (x[2] # a => worker'[x] = worker[x])
      <4>1. worker[x] \in Refreshes
        BY <1>1 DEF RefreshTypes
      <4>2. worker'[x] = worker[x] \/ (x[2] = a /\ worker'[x] = [worker[x] EXCEPT !.overtaken = TRUE])
        BY <2>3 DEF Overtake
      <4> QED
        BY <2>1, <4>1, <4>2
    <3>2. worker' \in [Workers -> Refreshes]
      BY <2>3, <3>1 DEF Overtake
    <3> QED
      BY <3>1, <3>2
  <2> QED
    BY <2>2, <2>3
<1>4. RefreshTypes'
  BY <1>1, <1>2, <1>3 DEF RefreshTypes
<1>5. RefreshesAtHome' /\ ClaimsInJournal'
  BY <1>3 DEF RefreshInv, RefreshesAtHome, ClaimsInJournal
<1>6. SubmittedInJournal' /\ GrantSubmittedOnce'
  <2>1. GrantSubmittedOnce'
    BY DEF RefreshInv, GrantSubmittedOnce
  <2>2. CASE homesUp # {}
    BY <2>1, <2>2 DEF RefreshInv, SubmittedInJournal
  <2>3. CASE r.fence = row[a].fence /\ r.grant = row[a].grant
    <3>1. \A b \in Auths : row'[b].fence = row[b].fence /\ row'[b].grant = row[b].grant
      BY <1>2, <2>3
    <3> QED
      BY <2>1, <3>1 DEF RefreshInv, SubmittedInJournal
  <2> QED
    BY <2>1, <2>2, <2>3
<1>7. LeasedAsClaimed'
  <2> SUFFICES ASSUME NEW x \in Workers, worker'[x].pc # "idle", row'[x[2]].lease = x
               PROVE  IF worker'[x].overtaken THEN row'[x[2]].access = 0 /\ worker'[x].base.access # 0
                      ELSE /\ row'[x[2]].access = worker'[x].base.access
                           /\ row'[x[2]].grant = worker'[x].base.grant
    BY DEF LeasedAsClaimed
  <2>1. x[2] \in Auths
    BY WorkersRefreshAuths
  <2>2. CASE x[2] = a
    BY <1>2, <1>3, <2>2
  <2>3. CASE x[2] # a
    BY <1>2, <1>3, <2>1, <2>3 DEF RefreshInv, LeasedAsClaimed
  <2> QED
    BY <2>2, <2>3
<1>8. OperatorsWin'
  BY <1>2 DEF RefreshInv, OperatorsWin, EditsSurviveRefresh, ReplacedTokensSurvive
<1> QED
  BY <1>4, <1>5, <1>6, <1>7, <1>8 DEF RefreshInv

LEMMA BackoffElapsesInv ==
    ASSUME RefreshInv, NEW a \in Auths, BackoffElapses(a)
    PROVE  RefreshInv'
<1> DEFINE r == [row[a] EXCEPT !.backoff = FALSE]
<1>1. RefreshTypes /\ row' = [row EXCEPT ![a] = r]
      /\ UNCHANGED <<journal, worker, homesUp, issued, submitted, edited, clobbered, faults>>
  BY DEF BackoffElapses, RefreshInv
<1>2. /\ r \in RefreshRows /\ r.access = row[a].access /\ r.grant = row[a].grant
      /\ r.label = row[a].label /\ r.lease = row[a].lease /\ r.fence = row[a].fence
  BY <1>1, BackoffUpdate DEF RefreshTypes
<1> HIDE DEF r
<1>3. r.label = edited'[a] /\ edited' \in [Auths -> Nat] /\ faults' \in Nat
  BY <1>1, <1>2 DEF RefreshInv, OperatorsWin, EditsSurviveRefresh, RefreshTypes
<1>4. \A w \in Workers : w[2] = a /\ worker[w].pc # "idle" /\ r.lease = w =>
          IF worker'[w].overtaken THEN r.access = 0 /\ worker[w].base.access # 0
          ELSE r.access = worker[w].base.access /\ r.grant = worker[w].base.grant
  BY <1>1, <1>2 DEF RefreshInv, LeasedAsClaimed
<1>5. RewritesRow(a, r)
  BY <1>1, <1>2, <1>3, <1>4 DEF RewritesRow
<1> QED
  BY <1>5, RewritesRowInv

LEMMA EditLabelInv ==
    ASSUME RefreshInv, NEW a \in Auths, EditLabel(a)
    PROVE  RefreshInv'
<1> DEFINE r == [row[a] EXCEPT !.label = faults + 1]
<1>1. RefreshTypes /\ row' = [row EXCEPT ![a] = r] /\ homesUp # {} /\ faults' = faults + 1
      /\ edited' = [edited EXCEPT ![a] = faults + 1]
      /\ UNCHANGED <<journal, worker, homesUp, issued, submitted, clobbered>>
  BY DEF EditLabel, OperatorActs, RefreshInv
<1>2. faults + 1 \in Nat /\ row[a] \in RefreshRows
  BY <1>1 DEF RefreshTypes
<1>3. /\ r \in RefreshRows /\ r.access = row[a].access /\ r.grant = row[a].grant
      /\ r.label = faults + 1 /\ r.lease = row[a].lease /\ r.fence = row[a].fence
  BY <1>2 DEF RefreshRows
<1> HIDE DEF r
<1>4. r.label = edited'[a] /\ edited' \in [Auths -> Nat] /\ faults' \in Nat
      /\ \A b \in Auths : b # a => edited'[b] = edited[b]
  BY <1>1, <1>2, <1>3 DEF RefreshTypes
<1>5. \A w \in Workers : w[2] = a /\ worker[w].pc # "idle" /\ r.lease = w =>
          IF worker'[w].overtaken THEN r.access = 0 /\ worker[w].base.access # 0
          ELSE r.access = worker[w].base.access /\ r.grant = worker[w].base.grant
  BY <1>1, <1>3 DEF RefreshInv, LeasedAsClaimed
<1>6. RewritesRow(a, r)
  BY <1>1, <1>3, <1>4, <1>5 DEF RewritesRow
<1> QED
  BY <1>6, RewritesRowInv

LEMMA SetDisabledInv ==
    ASSUME RefreshInv, NEW a \in Auths, SetDisabled(a)
    PROVE  RefreshInv'
<1> DEFINE r == [row[a] EXCEPT !.disabled = ~@]
<1>1. RefreshTypes /\ row' = [row EXCEPT ![a] = r] /\ homesUp # {} /\ faults' = faults + 1
      /\ UNCHANGED <<journal, worker, homesUp, issued, submitted, edited, clobbered>>
  BY DEF SetDisabled, OperatorActs, RefreshInv
<1>2. /\ r \in RefreshRows /\ r.access = row[a].access /\ r.grant = row[a].grant
      /\ r.label = row[a].label /\ r.lease = row[a].lease
  BY <1>1, DisabledUpdate DEF RefreshTypes
<1> HIDE DEF r
<1>3. r.label = edited'[a] /\ edited' \in [Auths -> Nat] /\ faults' \in Nat
  BY <1>1, <1>2 DEF RefreshInv, OperatorsWin, EditsSurviveRefresh, RefreshTypes
<1>4. \A w \in Workers : w[2] = a /\ worker[w].pc # "idle" /\ r.lease = w =>
          IF worker'[w].overtaken THEN r.access = 0 /\ worker[w].base.access # 0
          ELSE r.access = worker[w].base.access /\ r.grant = worker[w].base.grant
  BY <1>1, <1>2 DEF RefreshInv, LeasedAsClaimed
<1>5. RewritesRow(a, r)
  BY <1>1, <1>2, <1>3, <1>4 DEF RewritesRow
<1> QED
  BY <1>5, RewritesRowInv

LEMMA ReplaceAccessInv ==
    ASSUME RefreshInv, NEW a \in Auths, ReplaceAccess(a)
    PROVE  RefreshInv'
<1> DEFINE r == [row[a] EXCEPT !.access = 0]
<1>1. RefreshTypes /\ row' = [row EXCEPT ![a] = r] /\ homesUp # {} /\ faults' = faults + 1
      /\ row[a].access # 0 /\ Overtake(a)
      /\ UNCHANGED <<journal, homesUp, issued, submitted, edited, clobbered>>
  BY DEF ReplaceAccess, OperatorActs, RefreshInv
<1>2. /\ r \in RefreshRows /\ r.access = 0 /\ r.grant = row[a].grant
      /\ r.label = row[a].label /\ r.lease = row[a].lease
  BY <1>1 DEF RefreshTypes, RefreshRows
<1> HIDE DEF r
<1>3. r.label = edited'[a] /\ edited' \in [Auths -> Nat] /\ faults' \in Nat
  BY <1>1, <1>2 DEF RefreshInv, OperatorsWin, EditsSurviveRefresh, RefreshTypes
<1>4. ASSUME NEW w \in Workers, w[2] = a, worker[w].pc # "idle", r.lease = w
      PROVE  worker'[w].overtaken /\ worker[w].base.access # 0
  <2>1. worker'[w] = [worker[w] EXCEPT !.overtaken = TRUE]
    BY <1>1, <1>4 DEF Overtake
  <2>2. worker[w] \in Refreshes
    BY <1>1 DEF RefreshTypes
  <2>3. worker'[w].overtaken
    BY <2>1, <2>2 DEF Refreshes
  <2>4. worker[w].base.access # 0
    BY <1>1, <1>2, <1>4 DEF RefreshInv, LeasedAsClaimed
  <2> QED
    BY <2>3, <2>4
<1>5. RewritesRow(a, r)
  BY <1>1, <1>2, <1>3, <1>4 DEF RewritesRow
<1> QED
  BY <1>5, RewritesRowInv

LEMMA RestoreCredentialInv ==
    ASSUME RefreshInv, NEW a \in Auths, NEW g \in Grants, RestoreCredential(a, g)
    PROVE  RefreshInv'
<1> DEFINE r == [FreshRow("none") EXCEPT !.access = g, !.grant = g, !.label = row[a].label]
<1>1. RefreshTypes /\ row' = [row EXCEPT ![a] = r] /\ homesUp # {} /\ faults' = faults + 1
      /\ (worker' = worker \/ Overtake(a))
      /\ UNCHANGED <<journal, homesUp, issued, submitted, edited, clobbered>>
  BY DEF RestoreCredential, OperatorActs, RefreshInv
<1>2. r \in RefreshRows /\ r.lease = NoLease /\ r.label = row[a].label
  <2>1. row[a].label \in Nat /\ g \in Nat
    BY <1>1, RowShape, WorkersRefreshAuths DEF RefreshTypes
  <2>2. FreshRow("none") \in RefreshRows /\ FreshRow("none").lease = NoLease
    BY FreshRowShape DEF Fences
  <2> HIDE DEF FreshRow
  <2> QED
    BY <2>1, <2>2 DEF RefreshRows
<1> HIDE DEF r
<1>3. r.label = edited'[a] /\ edited' \in [Auths -> Nat] /\ faults' \in Nat
  BY <1>1, <1>2 DEF RefreshInv, OperatorsWin, EditsSurviveRefresh, RefreshTypes
<1>4. \A w \in Workers : r.lease # w
  BY <1>2, WorkersRefreshAuths
<1>5. RewritesRow(a, r)
  BY <1>1, <1>2, <1>3, <1>4 DEF RewritesRow
<1> QED
  BY <1>5, RewritesRowInv

LEMMA NextRefreshInv == RefreshInv /\ [RefreshNext]_refreshVars => RefreshInv'
<1> SUFFICES ASSUME RefreshInv, [RefreshNext]_refreshVars PROVE RefreshInv'
  OBVIOUS
<1>1. CASE \E h \in Homes : StartHome(h) \/ CrashHome(h)
  BY <1>1, StartHomeInv, CrashHomeInv
<1>2. ASSUME NEW w \in Workers,
             \/ ClaimLease(w) \/ StartExchange(w) \/ JournalClaimFails(w) \/ Submit(w)
             \/ NotSubmitted(w) \/ Respond(w) \/ Finalize(w) \/ FinalizeExpires(w)
      PROVE  RefreshInv'
  BY <1>2, ClaimLeaseInv, StartExchangeInv, JournalClaimFailsInv, SubmitInv, NotSubmittedInv,
     RespondInv, FinalizeInv, FinalizeExpiresInv
<1>3. ASSUME NEW a \in Auths, BackoffElapses(a) \/ EditLabel(a) \/ SetDisabled(a) \/ ReplaceAccess(a)
      PROVE  RefreshInv'
  BY <1>3, BackoffElapsesInv, EditLabelInv, SetDisabledInv, ReplaceAccessInv
<1>4. ASSUME NEW a \in Auths, NEW g \in Grants, RestoreCredential(a, g)
      PROVE  RefreshInv'
  BY <1>4, RestoreCredentialInv
<1>5. CASE UNCHANGED refreshVars
  BY <1>5 DEF refreshVars, RefreshInv, RefreshTypes, RefreshesAtHome, ClaimsInJournal, SubmittedInJournal,
     GrantSubmittedOnce, LeasedAsClaimed, OperatorsWin, EditsSurviveRefresh, ReplacedTokensSurvive
<1> QED
  BY <1>1, <1>2, <1>3, <1>4, <1>5 DEF RefreshNext

\* Codex rotates refresh grants and revokes an account whose grant is spent twice.  Whatever
\* crashes, lost answers, expired leases, copies of one credential and restored credentials there
\* are, the journal sees to it that no grant is sent a second time.
THEOREM GrantsAreSpentOnce == RefreshSpec => []GrantSubmittedOnce
<1>1. RefreshInv => GrantSubmittedOnce
  BY DEF RefreshInv
<1> QED
  BY <1>1, RefreshInitInv, NextRefreshInv, PTL DEF RefreshSpec

\* A refresh that the operator overtook never stores its tokens, and no refresh takes back what
\* the operator wrote (finalizeRefreshLease, mergeClusterRefreshOutcome).
THEOREM OperatorChangesStay == RefreshSpec => []OperatorsWin
<1>1. RefreshInv => OperatorsWin
  BY DEF RefreshInv
<1> QED
  BY <1>1, RefreshInitInv, NextRefreshInv, PTL DEF RefreshSpec

\* What the journal knows of a grant it does not forget: the receipt of an exchange, or that it was
\* refused or its answer lost, is never replaced, and a grant that was sent is never again taken for
\* one that was not (RefreshComplete, RefreshRelease and the migration of older fences).
AnswersStand ==
    [][\A g \in Grants :
          /\ journal[g].kind \in {"tokens", "rejected", "stage"} => journal'[g] = journal[g]
          /\ submitted[g] # 0 /\ journal[g] # Absent => journal'[g] # Absent]_refreshVars

\* A step writes where the journal has nothing, or ends a claim, which a refresh that has sent the
\* grant does with what came of it.
LEMMA JournalStep ==
    ASSUME RefreshInv, RefreshNext, NEW g \in Grants
    PROVE  \/ journal'[g] = journal[g]
           \/ journal[g] = Absent
           \/ /\ \E w \in Workers : journal[g] = Pending(w)
              /\ journal'[g] # Absent \/ submitted[g] = 0
<1> DEFINE ClaimEnds == /\ \E w \in Workers : journal[g] = Pending(w)
                        /\ journal'[g] # Absent \/ submitted[g] = 0
<1> SUFFICES journal'[g] = journal[g] \/ journal[g] = Absent \/ ClaimEnds
  OBVIOUS
<1>0. journal \in [Grants -> JournalRows]
  BY DEF RefreshInv, RefreshTypes
<1>1. ASSUME NEW h \in Homes, StartHome(h)
      PROVE  journal'[g] = journal[g] \/ journal[g] = Absent
  BY <1>1 DEF StartHome, Migrated
<1>2. ASSUME NEW w \in Workers, StartExchange(w)
      PROVE  journal'[g] = journal[g] \/ journal[g] = Absent
  <2> DEFINE claimed == worker[w].base.grant
             j == IF worker[w].base.fence = "submitted" /\ journal[claimed] = Absent
                  THEN [journal EXCEPT ![claimed] = Fenced] ELSE journal
  <2>1. journal' = j \/ (j[claimed] = Absent /\ journal' = [j EXCEPT ![claimed] = Pending(w)])
    BY <1>2 DEF StartExchange
  <2>2. j \in [Grants -> JournalRows \cup {Fenced}] /\ (j[g] = journal[g] \/ journal[g] = Absent)
    BY <1>0
  <2> HIDE DEF j, claimed
  <2> QED
    BY <2>1, <2>2
<1>3. ASSUME NEW w \in Workers, JournalClaimFails(w)
      PROVE  journal'[g] = journal[g] \/ journal[g] = Absent
  <2> DEFINE claimed == worker[w].base.grant
  <2>1. \/ journal' = journal
        \/ journal' = [journal EXCEPT ![claimed] = IF @ = Absent THEN Pending(w) ELSE @]
    BY <1>3 DEF JournalClaimFails
  <2> HIDE DEF claimed
  <2> QED
    BY <1>0, <2>1
<1>4. ASSUME NEW w \in Workers, NotSubmitted(w)
      PROVE  journal'[g] = journal[g] \/ ClaimEnds
  <2> DEFINE claimed == worker[w].base.grant
  <2>1. journal[claimed] = Pending(w) /\ submitted[claimed] = 0
    BY <1>4 DEF NotSubmitted, RefreshInv, ClaimsInJournal
  <2>2. journal' = [journal EXCEPT ![claimed] = Absent] \/ journal' = journal
    BY <1>4 DEF NotSubmitted
  <2> HIDE DEF claimed
  <2>3. g # claimed => journal'[g] = journal[g]
    BY <1>0, <2>2
  <2> QED
    BY <2>1, <2>3
<1>5. ASSUME NEW w \in Workers, Respond(w)
      PROVE  journal'[g] = journal[g] \/ ClaimEnds
  <2> DEFINE claimed == worker[w].base.grant
  <2>1. journal[claimed] = Pending(w)
    BY <1>5 DEF Respond, RefreshInv, ClaimsInJournal
  <2>2. journal' = journal \/ \E receipt \in Receipts(claimed) : journal' = [journal EXCEPT ![claimed] = receipt]
    BY <1>5 DEF Respond
  <2>3. \A receipt \in Receipts(claimed) : receipt # Absent
    BY DEF Receipts, Tokens, Denied, Fenced, Absent
  <2> HIDE DEF claimed
  <2>4. g # claimed => journal'[g] = journal[g]
    BY <1>0, <2>2
  <2>5. journal' # journal => journal'[claimed] # Absent \/ claimed # g
    BY <1>0, <2>2, <2>3
  <2> QED
    BY <2>1, <2>4, <2>5
<1>6. ASSUME NEW h \in Homes, CrashHome(h) PROVE journal' = journal
  BY <1>6 DEF CrashHome
<1>7. ASSUME NEW w \in Workers, ClaimLease(w) \/ Submit(w) \/ Finalize(w) \/ FinalizeExpires(w)
      PROVE  journal' = journal
  BY <1>7 DEF ClaimLease, Submit, Finalize, FinalizeExpires
<1>8. ASSUME NEW a \in Auths, BackoffElapses(a) \/ EditLabel(a) \/ SetDisabled(a) \/ ReplaceAccess(a)
      PROVE  journal' = journal
  BY <1>8 DEF BackoffElapses, EditLabel, SetDisabled, ReplaceAccess
<1>9. ASSUME NEW a \in Auths, NEW old \in Grants, RestoreCredential(a, old)
      PROVE  journal' = journal
  BY <1>9 DEF RestoreCredential
<1> HIDE DEF ClaimEnds
<1> QED
  BY <1>1, <1>2, <1>3, <1>4, <1>5, <1>6, <1>7, <1>8, <1>9 DEF RefreshNext

\* The journal's answers are final, which is what lets every later refresh of the grant, of whatever
\* row and Home, go by them instead of asking the provider.
THEOREM AnswersAreFinal == RefreshSpec => AnswersStand
<1> DEFINE Stands ==
             \A g \in Grants :
                /\ journal[g].kind \in {"tokens", "rejected", "stage"} => journal'[g] = journal[g]
                /\ submitted[g] # 0 /\ journal[g] # Absent => journal'[g] # Absent
<1>1. RefreshInv /\ RefreshNext => Stands
  <2> SUFFICES ASSUME RefreshInv, RefreshNext, NEW g \in Grants
               PROVE  /\ journal[g].kind \in {"tokens", "rejected", "stage"} => journal'[g] = journal[g]
                      /\ submitted[g] # 0 /\ journal[g] # Absent => journal'[g] # Absent
    OBVIOUS
  <2>1. Absent.kind = "absent" /\ \A w : Pending(w).kind = "pending" /\ Pending(w) # Absent
    BY DEF Absent, Pending
  <2> QED
    BY <2>1, JournalStep
<1> HIDE DEF Stands
<1>2. RefreshSpec => [][Stands]_refreshVars
  BY <1>1, RefreshInitInv, NextRefreshInv, PTL DEF RefreshSpec
<1> QED
  BY <1>2 DEF AnswersStand, Stands

-------------------------------------------------------------------------------
(* The credential cache. *)

AuthCacheSpec == AuthCacheInit /\ [][AuthCacheNext]_authCacheVars

Marks == [known : Nat, active : BOOLEAN, full : Nat]
AuthEvents == [id : Nat, uuid : Uuids, op : {"update", "delete"}, version : Nat]
WriteTransactions == [by : Threads \cup {Remote}, op : {"update", "delete"}, id : Nat]
ReadKinds == {"get", "observe", "load", "refresh"}
CacheOperations == [kind : ReadKinds \cup {"write", "cache", "remove", "tombstone"}, uuid : Uuids,
                    seen : Marks, read : BOOLEAN, version : Nat]

AuthTypes ==
    /\ authRow \in [Uuids -> [version : Nat, deleted : BOOLEAN]]
    /\ transaction \in [Uuids -> WriteTransactions \cup {NoTransaction}]
    /\ events \in SUBSET AuthEvents
    /\ nextEvent \in Nat \ {0}
    /\ cache \in [Uuids -> Marks]
    /\ operation \in [Actors -> CacheOperations \cup {NoOperation}]
    /\ lastSeenID \in Nat

\* What version a write or a deletion of u was committed as.
UpdateOf(u, version) == \E e \in events : e.uuid = u /\ e.op = "update" /\ e.version = version
DeletionOf(u, version) == \E e \in events : e.uuid = u /\ e.op = "delete" /\ e.version = version
DeletedSince(u, version) == \E e \in events : e.uuid = u /\ e.op = "delete" /\ e.version >= version

\* Every version of a row has one event, and the ids are in the order of the versions.
EventsOrdered ==
    /\ \A e \in events : /\ e.id > 0 /\ e.id < nextEvent
                         /\ e.version > 0 /\ e.version <= authRow[e.uuid].version
    /\ \A e, f \in events : e.uuid = f.uuid => /\ e.version = f.version => e.op = f.op
                                               /\ e.version < f.version => e.id < f.id
    /\ \A e, f \in events : e.id = f.id => e = f

\* An event id is used after all smaller ones: what the watcher has passed is complete.
CommitsInOrder ==
    /\ \A u \in Uuids : transaction[u].id # 0 =>
          /\ transaction[u].id < nextEvent
          /\ \A e \in events : e.id < transaction[u].id
          /\ \A v \in Uuids : transaction[v].id # 0 => u = v
    /\ lastSeenID = 0 \/ \E e \in events : e.id = lastSeenID

RowsHaveEvents ==
    \A u \in Uuids : IF authRow[u].version = 0 THEN authRow[u].deleted
                     ELSE IF authRow[u].deleted THEN DeletionOf(u, authRow[u].version)
                                                ELSE UpdateOf(u, authRow[u].version)

\* The cache never runs ahead of the table, holds a credential as live at a version at which it
\* was, and as gone only if it was deleted at that version or a later one.
MarkHasEvents(u, c) ==
    /\ c.known <= authRow[u].version
    /\ c.active => c.known > 0 /\ UpdateOf(u, c.known)
    /\ ~c.active /\ c.known > 0 => DeletedSince(u, c.known)
    /\ c.full \in {Missing, c.known}
    /\ ~c.active => c.full = Missing
CacheHasEvents == \A u \in Uuids : MarkHasEvents(u, cache[u])

\* The same of what an operation is about to put into the cache.
ReadHasEvents(o) ==
    /\ o.seen.known <= authRow[o.uuid].version
    /\ o.read =>
        /\ o.kind = "cache" => UpdateOf(o.uuid, o.version)
        /\ o.kind \in {"remove", "tombstone"} => DeletionOf(o.uuid, o.version)
        /\ o.kind \in ReadKinds =>
              IF o.version = Missing THEN o.seen.known > 0 => DeletedSince(o.uuid, o.seen.known)
              ELSE UpdateOf(o.uuid, o.version)
        /\ o.kind # "write"

ReadsHaveEvents == \A x \in Actors : operation[x] # NoOperation => ReadHasEvents(operation[x])

\* The watcher works at the first event it has not passed.  What it has read for it is at least as
\* late, and the credential is gone only if a deletion is to follow.
NextToWatch(e) == e \in events /\ e.id > lastSeenID /\ \A f \in events : f.id > lastSeenID => e.id <= f.id
WatchesEvent(o, e) ==
    /\ o.uuid = e.uuid
    /\ \/ o.kind = "tombstone" /\ e.op = "delete" /\ o.version = e.version
       \/ /\ o.kind = "refresh" /\ e.op = "update"
          /\ o.read => IF o.version = Missing THEN DeletedSince(e.uuid, e.version) ELSE o.version >= e.version
WatcherAtEvent ==
    operation[Watcher] # NoOperation =>
        \E e \in events : NextToWatch(e) /\ WatchesEvent(operation[Watcher], e)

AuthCacheInv ==
    /\ AuthTypes /\ EventsOrdered /\ CommitsInOrder /\ RowsHaveEvents
    /\ CacheHasEvents /\ ReadsHaveEvents /\ WatcherAtEvent /\ EventsTakeEffect

LEMMA AuthCacheActors ==
    Watcher \in Actors /\ Watcher \notin Threads /\ Threads \subseteq Actors /\ Remote \notin Threads
BY AuthCacheAssumption DEF Watcher, Actors, Remote

LEMMA AuthCacheInitInv == AuthCacheInit => AuthCacheInv
<1> SUFFICES ASSUME AuthCacheInit PROVE AuthCacheInv
  OBVIOUS
<1> USE DEF AuthCacheInit
<1>1. AuthTypes
  <2>1. [known |-> 0, active |-> FALSE, full |-> Missing] \in Marks
    BY DEF Marks, Missing
  <2> QED
    BY <2>1 DEF AuthTypes
<1>2. EventsOrdered /\ RowsHaveEvents
  BY DEF EventsOrdered, RowsHaveEvents
<1>3. CommitsInOrder
  BY DEF CommitsInOrder, NoTransaction
<1>4. CacheHasEvents
  BY DEF CacheHasEvents, MarkHasEvents, Missing
<1>5. ReadsHaveEvents /\ WatcherAtEvent /\ EventsTakeEffect
  BY AuthCacheActors DEF ReadsHaveEvents, WatcherAtEvent, EventsTakeEffect
<1> QED
  BY <1>1, <1>2, <1>3, <1>4, <1>5 DEF AuthCacheInv

\* The invariant says of a quiet cache what the property asks for.
LEMMA QuietCache == AuthCacheInv => QuietCacheIsCurrent
<1> SUFFICES ASSUME AuthCacheInv, \A e \in events : e.id <= lastSeenID, NEW u \in Uuids
             PROVE  /\ cache[u].active = ~authRow[u].deleted
                    /\ cache[u].active => cache[u].known = authRow[u].version
                    /\ cache[u].full \in {Missing, authRow[u].version}
  BY DEF QuietCacheIsCurrent
<1>1. /\ cache[u].known \in Nat /\ cache[u].active \in BOOLEAN
      /\ authRow[u].version \in Nat /\ authRow[u].deleted \in BOOLEAN
  BY DEF AuthCacheInv, AuthTypes, Marks
<1>2. \A e \in events : e.id \in Nat /\ e.version \in Nat
  BY DEF AuthCacheInv, AuthTypes, AuthEvents
<1>3. lastSeenID \in Nat
  BY DEF AuthCacheInv, AuthTypes
<1>4. \A e \in events : ~(e.id > lastSeenID)
  BY <1>2, <1>3
<1>5. \A e \in events : cache[e.uuid].known >= e.version
  BY <1>4 DEF AuthCacheInv, EventsTakeEffect
<1>6. cache[u].known = authRow[u].version
  <2>1. authRow[u].version # 0 => \E e \in events : e.uuid = u /\ e.version = authRow[u].version
    BY <1>1 DEF AuthCacheInv, RowsHaveEvents, UpdateOf, DeletionOf
  <2>2. cache[u].known <= authRow[u].version
    BY DEF AuthCacheInv, CacheHasEvents, MarkHasEvents
  <2> QED
    BY <1>1, <1>5, <2>1, <2>2
<1>7. CASE authRow[u].version = 0
  BY <1>1, <1>6, <1>7 DEF AuthCacheInv, CacheHasEvents, MarkHasEvents, RowsHaveEvents, Missing
<1>8. CASE authRow[u].version # 0
  <2>1. authRow[u].deleted => ~UpdateOf(u, authRow[u].version)
    BY <1>1, <1>8 DEF AuthCacheInv, RowsHaveEvents, EventsOrdered, UpdateOf, DeletionOf
  <2>2. DeletedSince(u, authRow[u].version) => authRow[u].deleted
    <3> SUFFICES ASSUME ~authRow[u].deleted, NEW d \in events, d.uuid = u, d.op = "delete",
                        d.version >= authRow[u].version
                 PROVE  FALSE
      BY <1>1 DEF DeletedSince
    <3>1. PICK e \in events : e.uuid = u /\ e.op = "update" /\ e.version = authRow[u].version
      BY <1>8 DEF AuthCacheInv, RowsHaveEvents, UpdateOf
    <3>2. d.version = authRow[u].version
      BY <1>1, <1>2 DEF AuthCacheInv, EventsOrdered
    <3> QED
      BY <3>1, <3>2 DEF AuthCacheInv, EventsOrdered
  <2> QED
    BY <1>1, <1>6, <1>8, <2>1, <2>2 DEF AuthCacheInv, CacheHasEvents, MarkHasEvents
<1> QED
  BY <1>7, <1>8

LEMMA OperationFields ==
    ASSUME NEW o \in CacheOperations
    PROVE  /\ o.kind \in ReadKinds \cup {"write", "cache", "remove", "tombstone"} /\ o.uuid \in Uuids
           /\ o.seen \in Marks /\ o.seen.known \in Nat /\ o.read \in BOOLEAN /\ o.version \in Nat
BY DEF CacheOperations, Marks

LEMMA IdleOperation == ~NoOperation.read /\ NoOperation.kind = "idle"
BY DEF NoOperation, Operation, Idle

LEMMA EventFields ==
    ASSUME AuthCacheInv, NEW e \in events
    PROVE  /\ e.id \in Nat /\ e.uuid \in Uuids /\ e.op \in {"update", "delete"} /\ e.version \in Nat
           /\ e.id > 0 /\ e.id < nextEvent /\ e.version > 0 /\ e.version <= authRow[e.uuid].version
BY DEF AuthCacheInv, AuthTypes, AuthEvents, EventsOrdered

LEMMA RowFields ==
    ASSUME AuthCacheInv, NEW u \in Uuids
    PROVE  /\ authRow[u].version \in Nat /\ authRow[u].deleted \in BOOLEAN
           /\ cache[u] \in Marks /\ cache[u].known \in Nat /\ cache[u].full \in Nat
           /\ cache[u].active \in BOOLEAN /\ cache[u].known <= authRow[u].version
BY DEF AuthCacheInv, AuthTypes, Marks, CacheHasEvents, MarkHasEvents

(***************************************************************************)
(* Steps that leave the table and its events alone.                        *)
(***************************************************************************)
LEMMA TableKept ==
    ASSUME AuthCacheInv, UNCHANGED <<authRow, events, nextEvent>>
    PROVE  EventsOrdered' /\ RowsHaveEvents'
BY DEF AuthCacheInv, EventsOrdered, RowsHaveEvents, UpdateOf, DeletionOf

LEMMA CacheKept ==
    ASSUME AuthCacheInv, UNCHANGED <<authRow, events, cache, lastSeenID>>
    PROVE  CacheHasEvents' /\ EventsTakeEffect'
BY DEF AuthCacheInv, CacheHasEvents, MarkHasEvents, EventsTakeEffect, UpdateOf, DeletedSince

LEMMA CommitsKept ==
    ASSUME AuthCacheInv, UNCHANGED <<events, nextEvent, transaction, lastSeenID>>
    PROVE  CommitsInOrder'
BY DEF AuthCacheInv, CommitsInOrder

\* One operation begins, goes on or ends.
OperationGoesOn(t, o) ==
    /\ operation' = [operation EXCEPT ![t] = o]
    /\ \/ o = NoOperation
       \/ /\ o \in CacheOperations /\ ReadHasEvents(o)
          /\ t = Watcher => \E e \in events : NextToWatch(e) /\ WatchesEvent(o, e)

LEMMA OperationKept ==
    ASSUME AuthCacheInv, NEW t \in Actors, NEW o, OperationGoesOn(t, o),
           UNCHANGED <<authRow, events>>, UNCHANGED lastSeenID \/ (t = Watcher /\ o = NoOperation)
    PROVE  /\ operation' \in [Actors -> CacheOperations \cup {NoOperation}]
           /\ ReadsHaveEvents' /\ WatcherAtEvent'
<1>1. operation \in [Actors -> CacheOperations \cup {NoOperation}]
  BY DEF AuthCacheInv, AuthTypes
<1>2. operation'[t] = o /\ \A x \in Actors : x # t => operation'[x] = operation[x]
  BY <1>1 DEF OperationGoesOn
<1>3. operation' \in [Actors -> CacheOperations \cup {NoOperation}]
  BY <1>1 DEF OperationGoesOn
<1>4. ASSUME NEW x \in Actors, operation'[x] # NoOperation
      PROVE  ReadHasEvents(operation[x])'
  <2>1. ReadHasEvents(operation'[x])
    BY <1>2, <1>4 DEF OperationGoesOn, AuthCacheInv, ReadsHaveEvents
  <2> QED
    BY <2>1 DEF ReadHasEvents, UpdateOf, DeletionOf, DeletedSince
<1>5. ReadsHaveEvents'
  BY <1>4 DEF ReadsHaveEvents
<1>6. ASSUME operation'[Watcher] # NoOperation
      PROVE  \E e \in events' : NextToWatch(e)' /\ WatchesEvent(operation[Watcher], e)'
  <2>1. \E e \in events : NextToWatch(e) /\ WatchesEvent(operation'[Watcher], e)
    BY <1>2, <1>6, AuthCacheActors DEF OperationGoesOn, AuthCacheInv, WatcherAtEvent
  <2>2. UNCHANGED lastSeenID
    BY <1>2, <1>6
  <2> QED
    BY <2>1, <2>2 DEF NextToWatch, WatchesEvent, DeletedSince
<1> QED
  BY <1>3, <1>5, <1>6 DEF WatcherAtEvent

LEMMA StartReadInv ==
    ASSUME AuthCacheInv, NEW t \in Threads, NEW u \in Uuids, NEW kind \in ReadKinds, StartRead(t, u, kind)
    PROVE  AuthCacheInv'
<1> DEFINE o == Operation(kind, u, cache[u], FALSE, Missing)
<1>1. operation' = [operation EXCEPT ![t] = o]
      /\ UNCHANGED <<authRow, transaction, events, nextEvent, cache, lastSeenID>>
  BY DEF StartRead
<1>2. o \in CacheOperations /\ o.uuid = u /\ o.seen = cache[u] /\ ~o.read
  BY RowFields DEF Operation, CacheOperations, Missing
<1> HIDE DEF o
<1>3. OperationGoesOn(t, o)
  BY <1>1, <1>2, RowFields, AuthCacheActors DEF OperationGoesOn, ReadHasEvents
<1>4. /\ operation' \in [Actors -> CacheOperations \cup {NoOperation}]
      /\ ReadsHaveEvents' /\ WatcherAtEvent'
  BY <1>1, <1>3, OperationKept, AuthCacheActors
<1>5. AuthTypes'
  BY <1>1, <1>4 DEF AuthCacheInv, AuthTypes
<1> QED
  BY <1>1, <1>4, <1>5, TableKept, CacheKept, CommitsKept DEF AuthCacheInv

LEMMA TakeEventInv ==
    ASSUME AuthCacheInv, TakeEvent
    PROVE  AuthCacheInv'
<1> DEFINE pending == {e \in events : e.id > lastSeenID}
           e == CHOOSE x \in pending : \A y \in pending : x.id <= y.id
           o == IF e.op = "delete" THEN Operation("tombstone", e.uuid, cache[e.uuid], TRUE, e.version)
                                   ELSE Operation("refresh", e.uuid, cache[e.uuid], FALSE, Missing)
<1>1. /\ pending # {} /\ operation' = [operation EXCEPT ![Watcher] = o]
      /\ UNCHANGED <<authRow, transaction, events, nextEvent, cache, lastSeenID>>
  BY DEF TakeEvent
<1>2. e \in pending /\ \A y \in pending : e.id <= y.id
  <2> DEFINE ids == {x.id : x \in pending}
  <2>1. ids \in SUBSET Nat /\ ids # {}
    BY <1>1, EventFields
  <2>2. PICK n \in ids : \A m \in ids : n <= m
    BY <2>1, LeastNat
  <2>3. \E x \in pending : \A y \in pending : x.id <= y.id
    BY <2>2
  <2> QED
    BY <2>3
<1> HIDE DEF e
<1>3. NextToWatch(e) /\ e \in events
  BY <1>2 DEF NextToWatch
<1>4. /\ e.id \in Nat /\ e.uuid \in Uuids /\ e.op \in {"update", "delete"} /\ e.version \in Nat
      /\ cache[e.uuid] \in Marks /\ cache[e.uuid].known <= authRow[e.uuid].version
  BY <1>3, EventFields, RowFields
<1>5. /\ o \in CacheOperations /\ o.uuid = e.uuid /\ o.seen = cache[e.uuid]
      /\ e.op = "delete" => o.kind = "tombstone" /\ o.read /\ o.version = e.version
      /\ e.op # "delete" => o.kind = "refresh" /\ ~o.read
  <2>1. CASE e.op = "delete"
    BY <1>4, <2>1 DEF Operation, CacheOperations
  <2>2. CASE e.op # "delete"
    BY <1>4, <2>2 DEF Operation, CacheOperations, ReadKinds, Missing
  <2> QED
    BY <2>1, <2>2
<1> HIDE DEF o
<1>6. ReadHasEvents(o) /\ WatchesEvent(o, e)
  BY <1>3, <1>4, <1>5 DEF ReadHasEvents, WatchesEvent, DeletionOf, ReadKinds
<1>7. OperationGoesOn(Watcher, o)
  BY <1>1, <1>3, <1>5, <1>6 DEF OperationGoesOn
<1>8. /\ operation' \in [Actors -> CacheOperations \cup {NoOperation}]
      /\ ReadsHaveEvents' /\ WatcherAtEvent'
  BY <1>1, <1>7, OperationKept, AuthCacheActors
<1>9. AuthTypes'
  BY <1>1, <1>8 DEF AuthCacheInv, AuthTypes
<1> QED
  BY <1>1, <1>8, <1>9, TableKept, CacheKept, CommitsKept DEF AuthCacheInv

LEMMA ReadRowInv ==
    ASSUME AuthCacheInv, NEW x \in Actors, ReadRow(x)
    PROVE  AuthCacheInv'
<1> DEFINE o == operation[x]
           r == authRow[o.uuid]
           found == IF r.deleted THEN Missing ELSE r.version
           done == [o EXCEPT !.read = TRUE, !.version = found]
<1>1. /\ o.kind \in ReadKinds /\ ~o.read
      /\ operation' = [operation EXCEPT ![x].read = TRUE, ![x].version = found]
      /\ UNCHANGED <<authRow, transaction, events, nextEvent, cache, lastSeenID>>
  BY DEF ReadRow, ReadKinds
<1>2. o \in CacheOperations /\ o # NoOperation
  BY <1>1, IdleOperation DEF AuthCacheInv, AuthTypes, ReadKinds
<1>3. o.uuid \in Uuids /\ o.seen.known \in Nat
  BY <1>2, OperationFields
<1>4. r.version \in Nat /\ r.deleted \in BOOLEAN /\ found \in Nat
  BY <1>3, RowFields DEF Missing
<1>5. /\ done \in CacheOperations /\ done.kind = o.kind /\ done.uuid = o.uuid /\ done.seen = o.seen
      /\ done.read /\ done.version = found
  BY <1>2, <1>4 DEF CacheOperations
<1>6. operation' = [operation EXCEPT ![x] = done]
  BY <1>1
<1>7. ReadHasEvents(o)
  BY <1>2 DEF AuthCacheInv, ReadsHaveEvents
<1>8. IF r.deleted THEN r.version = 0 \/ DeletionOf(o.uuid, r.version)
      ELSE r.version # 0 /\ UpdateOf(o.uuid, r.version)
  BY <1>3, <1>4 DEF AuthCacheInv, RowsHaveEvents
<1>9. IF found = Missing THEN r.deleted ELSE found = r.version /\ UpdateOf(o.uuid, found)
  BY <1>4, <1>8 DEF Missing
<1>10. found = Missing /\ o.seen.known > 0 => DeletedSince(o.uuid, o.seen.known)
  <2> SUFFICES ASSUME found = Missing, o.seen.known > 0 PROVE DeletedSince(o.uuid, o.seen.known)
    OBVIOUS
  <2>1. r.version # 0 /\ r.version >= o.seen.known
    BY <1>3, <1>4, <1>7 DEF ReadHasEvents
  <2>2. DeletionOf(o.uuid, r.version)
    BY <1>8, <1>9, <2>1
  <2> QED
    BY <2>1, <2>2 DEF DeletionOf, DeletedSince
<1> HIDE DEF found, done
<1>11. ReadHasEvents(done)
  BY <1>1, <1>5, <1>7, <1>9, <1>10 DEF ReadHasEvents, ReadKinds
<1>12. x = Watcher => \E e \in events : NextToWatch(e) /\ WatchesEvent(done, e)
  <2> SUFFICES ASSUME x = Watcher PROVE \E e \in events : NextToWatch(e) /\ WatchesEvent(done, e)
    OBVIOUS
  <2>1. PICK e \in events : NextToWatch(e) /\ WatchesEvent(o, e)
    BY <1>2 DEF AuthCacheInv, WatcherAtEvent
  <2>2. o.kind = "refresh" /\ e.op = "update" /\ o.uuid = e.uuid
    BY <1>1, <2>1 DEF WatchesEvent, ReadKinds
  <2>3. e.version \in Nat /\ e.version > 0 /\ e.version <= r.version
    BY <2>2, EventFields
  <2>4. CASE found = Missing
    <3>1. DeletionOf(e.uuid, r.version)
      BY <1>4, <1>8, <1>9, <2>2, <2>3, <2>4
    <3>2. DeletedSince(e.uuid, e.version)
      BY <2>3, <3>1 DEF DeletionOf, DeletedSince
    <3> QED
      BY <1>5, <2>1, <2>2, <2>4, <3>2 DEF WatchesEvent
  <2>5. CASE found # Missing
    BY <1>5, <1>9, <2>1, <2>2, <2>3, <2>5 DEF WatchesEvent
  <2> QED
    BY <2>4, <2>5
<1>13. OperationGoesOn(x, done)
  BY <1>5, <1>6, <1>11, <1>12 DEF OperationGoesOn
<1>14. /\ operation' \in [Actors -> CacheOperations \cup {NoOperation}]
       /\ ReadsHaveEvents' /\ WatcherAtEvent'
  BY <1>1, <1>13, OperationKept
<1>15. AuthTypes'
  BY <1>1, <1>14 DEF AuthCacheInv, AuthTypes
<1> QED
  BY <1>1, <1>14, <1>15, TableKept, CacheKept, CommitsKept DEF AuthCacheInv

LEMMA BeginWriteInv ==
    ASSUME AuthCacheInv, NEW by \in Threads \cup {Remote}, NEW u \in Uuids,
           NEW op \in {"update", "delete"}, BeginWrite(by, u, op)
    PROVE  AuthCacheInv'
<1> DEFINE o == Operation("write", u, cache[u], FALSE, Missing)
           tx == [by |-> by, op |-> op, id |-> 0]
<1>1. /\ transaction' = [transaction EXCEPT ![u] = tx]
      /\ by # Remote => operation' = [operation EXCEPT ![by] = o]
      /\ by = Remote => operation' = operation
      /\ UNCHANGED <<authRow, events, nextEvent, cache, lastSeenID>>
  BY DEF BeginWrite
<1>2. tx \in WriteTransactions /\ tx.id = 0
  BY DEF WriteTransactions
<1>3. o \in CacheOperations /\ o.uuid = u /\ o.seen = cache[u] /\ ~o.read
  BY RowFields DEF Operation, CacheOperations, Missing
<1> HIDE DEF o, tx
<1>4. /\ operation' \in [Actors -> CacheOperations \cup {NoOperation}]
      /\ ReadsHaveEvents' /\ WatcherAtEvent'
  <2>1. CASE by = Remote
    <3>1. ReadsHaveEvents' /\ WatcherAtEvent'
      BY <1>1, <2>1 DEF AuthCacheInv, ReadsHaveEvents, ReadHasEvents, WatcherAtEvent, NextToWatch,
                        WatchesEvent, UpdateOf, DeletionOf, DeletedSince
    <3> QED
      BY <1>1, <2>1, <3>1 DEF AuthCacheInv, AuthTypes
  <2>2. CASE by # Remote
    <3>1. by \in Actors /\ by # Watcher
      BY <2>2, AuthCacheActors
    <3>2. OperationGoesOn(by, o)
      BY <1>1, <1>3, <2>2, <3>1, RowFields DEF OperationGoesOn, ReadHasEvents
    <3> QED
      BY <1>1, <3>1, <3>2, OperationKept
  <2> QED
    BY <2>1, <2>2
<1>5. transaction \in [Uuids -> WriteTransactions \cup {NoTransaction}]
  BY DEF AuthCacheInv, AuthTypes
<1>6. transaction' \in [Uuids -> WriteTransactions \cup {NoTransaction}]
  BY <1>1, <1>2, <1>5
<1>7. AuthTypes'
  BY <1>1, <1>4, <1>6 DEF AuthCacheInv, AuthTypes
<1>8. CommitsInOrder'
  <2>1. \A v \in Uuids : transaction'[v].id # 0 => transaction[v].id = transaction'[v].id
    BY <1>1, <1>2, <1>5
  <2>2. \A v \in Uuids : transaction'[v].id # 0 => transaction[v].id # 0
    BY <2>1
  <2> QED
    BY <1>1, <2>1, <2>2 DEF AuthCacheInv, CommitsInOrder
<1> QED
  BY <1>1, <1>4, <1>7, <1>8, TableKept, CacheKept DEF AuthCacheInv

LEMMA AppendEventInv ==
    ASSUME AuthCacheInv, NEW u \in Uuids, AppendEvent(u)
    PROVE  AuthCacheInv'
<1> DEFINE tx == [transaction[u] EXCEPT !.id = nextEvent]
<1>1. /\ transaction[u] # NoTransaction /\ EventLockFree
      /\ transaction' = [transaction EXCEPT ![u] = tx] /\ nextEvent' = nextEvent + 1
      /\ UNCHANGED <<authRow, events, cache, operation, lastSeenID>>
  BY DEF AppendEvent
<1>2. nextEvent \in Nat \ {0} /\ transaction \in [Uuids -> WriteTransactions \cup {NoTransaction}]
  BY DEF AuthCacheInv, AuthTypes
<1>3. tx \in WriteTransactions /\ tx.id = nextEvent
  BY <1>1, <1>2 DEF WriteTransactions
<1> HIDE DEF tx
<1>4. AuthTypes'
  <2>1. transaction' \in [Uuids -> WriteTransactions \cup {NoTransaction}]
    BY <1>1, <1>2, <1>3
  <2> QED
    BY <1>1, <1>2, <2>1 DEF AuthCacheInv, AuthTypes
<1>5. EventsOrdered' /\ RowsHaveEvents'
  <2>1. \A e \in events : e.id < nextEvent'
    BY <1>1, <1>2, EventFields
  <2> QED
    BY <1>1, <2>1 DEF AuthCacheInv, EventsOrdered, RowsHaveEvents, UpdateOf, DeletionOf
<1>6. CommitsInOrder'
  <2>1. transaction'[u].id = nextEvent /\ \A v \in Uuids : v # u => transaction'[v].id = 0
    BY <1>1, <1>2, <1>3 DEF EventLockFree
  <2>2. \A e \in events : e.id < nextEvent
    BY EventFields
  <2>3. lastSeenID = 0 \/ \E e \in events : e.id = lastSeenID
    BY DEF AuthCacheInv, CommitsInOrder
  <2>4. \A v \in Uuids : transaction'[v].id # 0 => v = u
    BY <2>1
  <2> QED
    BY <1>1, <1>2, <2>1, <2>2, <2>3, <2>4 DEF CommitsInOrder
<1>7. ReadsHaveEvents' /\ WatcherAtEvent'
  BY <1>1 DEF AuthCacheInv, ReadsHaveEvents, ReadHasEvents, WatcherAtEvent, NextToWatch,
              WatchesEvent, UpdateOf, DeletionOf, DeletedSince
<1> QED
  BY <1>1, <1>4, <1>5, <1>6, <1>7, CacheKept DEF AuthCacheInv

LEMMA InvalidateInv ==
    ASSUME AuthCacheInv, NEW u \in Uuids, InvalidateFullAuth(u)
    PROVE  AuthCacheInv'
<1> DEFINE c == [cache[u] EXCEPT !.full = Missing]
<1>1. cache' = [cache EXCEPT ![u] = c]
      /\ UNCHANGED <<authRow, transaction, events, nextEvent, operation, lastSeenID>>
  BY DEF InvalidateFullAuth
<1>2. c \in Marks /\ c.known = cache[u].known /\ c.active = cache[u].active /\ c.full = Missing
  BY RowFields DEF Marks, Missing
<1> HIDE DEF c
<1>3. cache \in [Uuids -> Marks]
  BY DEF AuthCacheInv, AuthTypes
<1>4. \A v \in Uuids : /\ cache'[v].known = cache[v].known /\ cache'[v].active = cache[v].active
                       /\ cache'[v].full = Missing \/ cache'[v] = cache[v]
  BY <1>1, <1>2, <1>3
<1>5. AuthTypes'
  BY <1>1, <1>2, <1>3 DEF AuthCacheInv, AuthTypes
<1>6. CacheHasEvents'
  BY <1>1, <1>4 DEF AuthCacheInv, CacheHasEvents, MarkHasEvents, UpdateOf, DeletedSince
<1>7. EventsTakeEffect'
  BY <1>1, <1>4, EventFields DEF AuthCacheInv, EventsTakeEffect
<1>8. ReadsHaveEvents' /\ WatcherAtEvent'
  BY <1>1 DEF AuthCacheInv, ReadsHaveEvents, ReadHasEvents, WatcherAtEvent, NextToWatch,
              WatchesEvent, UpdateOf, DeletionOf, DeletedSince
<1> QED
  BY <1>1, <1>5, <1>6, <1>7, <1>8, TableKept, CommitsKept DEF AuthCacheInv

LEMMA CommitWriteInv ==
    ASSUME AuthCacheInv, NEW u \in Uuids, CommitWrite(u)
    PROVE  AuthCacheInv'
<1> DEFINE tx == transaction[u]
           version == authRow[u].version + 1
           e == [id |-> tx.id, uuid |-> u, op |-> tx.op, version |-> version]
           r == [version |-> version, deleted |-> tx.op = "delete"]
           o == Operation(IF tx.op = "delete" THEN "remove" ELSE "cache", u, cache[u], TRUE, version)
<1>1. /\ tx # NoTransaction /\ tx.id # 0
      /\ authRow' = [authRow EXCEPT ![u] = r] /\ events' = events \cup {e}
      /\ transaction' = [transaction EXCEPT ![u] = NoTransaction]
      /\ operation' = IF tx.by = Remote THEN operation ELSE [operation EXCEPT ![tx.by] = o]
      /\ UNCHANGED <<nextEvent, cache, lastSeenID>>
  BY DEF CommitWrite
<1>2. AuthTypes
  BY DEF AuthCacheInv
<1>3. tx \in WriteTransactions /\ tx.by \in Threads \cup {Remote} /\ tx.op \in {"update", "delete"} /\ tx.id \in Nat
  BY <1>1, <1>2 DEF AuthTypes, WriteTransactions
<1>4. version \in Nat /\ version > 0 /\ authRow[u].version < version /\ cache[u] \in Marks
  BY RowFields
<1>5. e \in AuthEvents /\ e.id = tx.id /\ e.uuid = u /\ e.op = tx.op /\ e.version = version
  BY <1>3, <1>4 DEF AuthEvents
<1>6. r \in [version : Nat, deleted : BOOLEAN] /\ r.version = version /\ r.deleted = (tx.op = "delete")
  BY <1>4
<1>7. /\ o \in CacheOperations /\ o.uuid = u /\ o.seen = cache[u] /\ o.read /\ o.version = version
      /\ o.kind = IF tx.op = "delete" THEN "remove" ELSE "cache"
  BY <1>4 DEF Operation, CacheOperations
<1> HIDE DEF e, r, o
<1>8. authRow'[u] = r /\ \A v \in Uuids : v # u => authRow'[v] = authRow[v]
  BY <1>1, <1>2 DEF AuthTypes
<1>9. \A v \in Uuids : authRow[v].version \in Nat /\ authRow'[v].version \in Nat /\ authRow[v].version <= authRow'[v].version
  BY <1>4, <1>6, <1>8, RowFields
<1>10. events \subseteq events' /\ e \in events'
  BY <1>1
<1>11. tx.id < nextEvent /\ tx.id > lastSeenID /\ \A f \in events : f.id < tx.id
  <2>1. tx.id < nextEvent /\ (\A f \in events : f.id < tx.id)
        /\ (lastSeenID = 0 \/ \E f \in events : f.id = lastSeenID)
    BY <1>1 DEF AuthCacheInv, CommitsInOrder
  <2> QED
    BY <1>1, <1>3, <2>1
<1>12. /\ \A v, n : UpdateOf(v, n) => UpdateOf(v, n)'
       /\ \A v, n : DeletionOf(v, n) => DeletionOf(v, n)'
       /\ \A v, n : DeletedSince(v, n) => DeletedSince(v, n)'
  BY <1>10 DEF UpdateOf, DeletionOf, DeletedSince
<1>13. \E f \in events' : f.uuid = u /\ f.op = tx.op /\ f.version = version
  BY <1>5, <1>10
<1>14. AuthTypes'
  <2>1. authRow' \in [Uuids -> [version : Nat, deleted : BOOLEAN]]
    BY <1>1, <1>2, <1>6 DEF AuthTypes
  <2>2. transaction' \in [Uuids -> WriteTransactions \cup {NoTransaction}]
    BY <1>1, <1>2 DEF AuthTypes
  <2>3. events' \in SUBSET AuthEvents
    BY <1>1, <1>2, <1>5 DEF AuthTypes
  <2>4. operation' \in [Actors -> CacheOperations \cup {NoOperation}]
    BY <1>1, <1>2, <1>7 DEF AuthTypes
  <2> QED
    BY <1>1, <1>2, <2>1, <2>2, <2>3, <2>4 DEF AuthTypes
<1>15. EventsOrdered'
  <2>1. ASSUME NEW f \in events'
        PROVE  f.id > 0 /\ f.id < nextEvent' /\ f.version > 0 /\ f.version <= authRow'[f.uuid].version
    <3>1. CASE f = e
      BY <1>1, <1>3, <1>4, <1>5, <1>6, <1>8, <1>11, <3>1
    <3>2. CASE f \in events
      BY <1>1, <1>9, <3>2, EventFields
    <3> QED
      BY <1>1, <3>1, <3>2
  <2>2. \A f \in events : f.uuid = u => f.version < version /\ f.id < e.id
    BY <1>4, <1>5, <1>11, EventFields, RowFields
  <2>3. ASSUME NEW f \in events', NEW g \in events', f.uuid = g.uuid
        PROVE  (f.version = g.version => f.op = g.op) /\ (f.version < g.version => f.id < g.id)
    <3>1. CASE f \in events /\ g \in events
      BY <2>3, <3>1 DEF AuthCacheInv, EventsOrdered
    <3>2. CASE f \in events /\ g = e
      BY <1>4, <1>5, <2>2, <2>3, <3>2, EventFields
    <3>3. CASE f = e /\ g \in events
      BY <1>4, <1>5, <2>2, <2>3, <3>3, EventFields
    <3>4. CASE f = e /\ g = e
      BY <1>4, <1>5, <3>4
    <3> QED
      BY <1>1, <3>1, <3>2, <3>3, <3>4
  <2>4. ASSUME NEW f \in events', NEW g \in events', f.id = g.id
        PROVE  f = g
    <3>1. \A h \in events : h.id # e.id
      BY <1>3, <1>5, <1>11, EventFields
    <3> QED
      BY <1>1, <2>4, <3>1 DEF AuthCacheInv, EventsOrdered
  <2> QED
    BY <2>1, <2>3, <2>4 DEF EventsOrdered
<1>16. CommitsInOrder'
  <2>1. \A v \in Uuids : transaction'[v].id = 0
    BY <1>1, <1>2 DEF AuthCacheInv, CommitsInOrder, AuthTypes, NoTransaction
  <2>2. lastSeenID' = 0 \/ \E f \in events' : f.id = lastSeenID'
    BY <1>1, <1>10 DEF AuthCacheInv, CommitsInOrder
  <2> QED
    BY <2>1, <2>2 DEF CommitsInOrder
<1>17. RowsHaveEvents'
  <2> SUFFICES ASSUME NEW v \in Uuids
               PROVE  IF authRow'[v].version = 0 THEN authRow'[v].deleted
                      ELSE IF authRow'[v].deleted THEN DeletionOf(v, authRow[v].version)'
                           ELSE UpdateOf(v, authRow[v].version)'
    BY DEF RowsHaveEvents
  <2>1. CASE v = u
    <3>1. authRow'[u].version = version /\ authRow'[u].deleted = (tx.op = "delete") /\ version # 0
      BY <1>4, <1>6, <1>8
    <3> QED
      BY <1>5, <1>3, <1>10, <2>1, <3>1 DEF UpdateOf, DeletionOf
  <2>2. CASE v # u
    <3>1. authRow'[v] = authRow[v]
      BY <1>8, <2>2
    <3> QED
      BY <1>10, <3>1 DEF AuthCacheInv, RowsHaveEvents, UpdateOf, DeletionOf
  <2> QED
    BY <2>1, <2>2
<1>18. CacheHasEvents'
  <2> SUFFICES ASSUME NEW v \in Uuids PROVE MarkHasEvents(v, cache[v])'
    BY DEF CacheHasEvents
  <2>1. MarkHasEvents(v, cache[v])
    BY DEF AuthCacheInv, CacheHasEvents
  <2>2. cache[v].known <= authRow'[v].version
    BY <1>9, RowFields
  <2> QED
    BY <1>1, <1>10, <2>1, <2>2 DEF MarkHasEvents, UpdateOf, DeletedSince
<1>19. ReadsHaveEvents'
  <2> SUFFICES ASSUME NEW x \in Actors, operation'[x] # NoOperation
               PROVE  ReadHasEvents(operation[x])'
    BY DEF ReadsHaveEvents
  <2>1. CASE tx.by # Remote /\ x = tx.by
    <3>1. operation'[x] = o
      BY <1>1, <1>2, <2>1 DEF AuthTypes
    <3>2. o.seen.known <= authRow'[u].version
      BY <1>7, <1>9, RowFields
    <3>3. /\ o.kind = "cache" => \E f \in events' : f.uuid = u /\ f.op = "update" /\ f.version = o.version
          /\ o.kind = "remove" => \E f \in events' : f.uuid = u /\ f.op = "delete" /\ f.version = o.version
      BY <1>3, <1>7, <1>13
    <3>4. o.kind \in {"cache", "remove"}
      BY <1>7
    <3> QED
      BY <1>7, <3>1, <3>2, <3>3, <3>4 DEF ReadHasEvents, ReadKinds, UpdateOf, DeletionOf
  <2>2. CASE operation'[x] = operation[x]
    <3>1. operation[x] \in CacheOperations /\ ReadHasEvents(operation[x])
      BY <1>2, <2>2 DEF AuthCacheInv, AuthTypes, ReadsHaveEvents
    <3>2. operation[x].seen.known <= authRow'[operation[x].uuid].version
      BY <1>9, <3>1, OperationFields DEF ReadHasEvents
    <3> QED
      BY <1>10, <2>2, <3>1, <3>2 DEF ReadHasEvents, UpdateOf, DeletionOf, DeletedSince
  <2> QED
    BY <1>1, <1>2, <2>1, <2>2 DEF AuthTypes
<1>20. WatcherAtEvent'
  <2> SUFFICES ASSUME operation'[Watcher] # NoOperation
               PROVE  \E f \in events' : NextToWatch(f)' /\ WatchesEvent(operation[Watcher], f)'
    BY DEF WatcherAtEvent
  <2>1. operation'[Watcher] = operation[Watcher]
    BY <1>1, <1>2, <1>3, AuthCacheActors DEF AuthTypes
  <2>2. PICK f \in events : NextToWatch(f) /\ WatchesEvent(operation[Watcher], f)
    BY <2>1 DEF AuthCacheInv, WatcherAtEvent
  <2>3. f.id <= e.id
    BY <1>3, <1>5, <1>11, EventFields
  <2>4. NextToWatch(f)'
    BY <1>1, <2>2, <2>3 DEF NextToWatch
  <2> QED
    BY <1>10, <2>1, <2>2, <2>4 DEF WatchesEvent, DeletedSince
<1>21. EventsTakeEffect'
  <2> SUFFICES ASSUME NEW f \in events', f.id <= lastSeenID
               PROVE  \/ cache[f.uuid].known >= f.version
                      \/ \E d \in events' : d.uuid = f.uuid /\ d.op = "delete" /\ d.version > f.version /\ d.id > lastSeenID
    BY <1>1 DEF EventsTakeEffect
  <2>1. f # e
    BY <1>2, <1>3, <1>5, <1>11 DEF AuthTypes
  <2>2. f \in events
    BY <1>1, <2>1
  <2> QED
    BY <1>10, <2>2 DEF AuthCacheInv, EventsTakeEffect
<1> QED
  BY <1>14, <1>15, <1>16, <1>17, <1>18, <1>19, <1>20, <1>21 DEF AuthCacheInv

(***************************************************************************)
(* What an operation does to the cache.                                    *)
(***************************************************************************)
\* The mark after an operation: no older than before, and justified by the events.
NewerMark(u, c, n) == n \in Marks /\ MarkHasEvents(u, n) /\ n.known >= c.known

LEMMA StoredMark ==
    ASSUME AuthCacheInv, NEW u \in Uuids, NEW c \in Marks, MarkHasEvents(u, c),
           NEW version \in Nat, UpdateOf(u, version), NEW full \in {Missing, version}
    PROVE  NewerMark(u, c, Stored(c, version, full)) /\ Stored(c, version, full).known >= version
<1>1. c.known \in Nat /\ c.active \in BOOLEAN /\ c.full \in Nat
  BY DEF Marks
<1>2. CASE Superseded(c, version)
  <2>1. Stored(c, version, full) = c
    BY <1>2 DEF Stored
  <2> QED
    BY <1>1, <1>2, <2>1 DEF NewerMark, Superseded
<1>3. CASE ~Superseded(c, version)
  <2> DEFINE n == [known |-> version, active |-> TRUE, full |-> full]
  <2>1. Stored(c, version, full) = n
    BY <1>3 DEF Stored
  <2>2. n \in Marks /\ n.known = version /\ n.active /\ n.full = full
    BY DEF Marks, Missing
  <2>3. version > 0 /\ version <= authRow[u].version
    BY EventFields DEF UpdateOf
  <2>4. version >= c.known
    BY <1>1, <1>3 DEF Superseded
  <2> HIDE DEF n
  <2> QED
    BY <2>1, <2>2, <2>3, <2>4 DEF NewerMark, MarkHasEvents
<1> QED
  BY <1>2, <1>3

LEMMA RemovedMark ==
    ASSUME AuthCacheInv, NEW u \in Uuids, NEW c \in Marks, MarkHasEvents(u, c),
           NEW version \in Nat, DeletionOf(u, version)
    PROVE  NewerMark(u, c, Removed(c, version)) /\ Removed(c, version).known >= version
<1>1. c.known \in Nat /\ c.active \in BOOLEAN /\ c.full \in Nat
  BY DEF Marks
<1>2. CASE version < c.known
  <2>1. Removed(c, version) = c
    BY <1>2 DEF Removed
  <2> QED
    BY <1>1, <1>2, <2>1 DEF NewerMark
<1>3. CASE ~(version < c.known)
  <2> DEFINE n == [known |-> version, active |-> FALSE, full |-> Missing]
  <2>1. Removed(c, version) = n
    BY <1>3 DEF Removed
  <2>2. n \in Marks /\ n.known = version /\ ~n.active /\ n.full = Missing
    BY DEF Marks, Missing
  <2>3. version > 0 /\ version <= authRow[u].version /\ DeletedSince(u, version)
    BY EventFields DEF DeletionOf, DeletedSince
  <2> HIDE DEF n
  <2> QED
    BY <1>1, <1>3, <2>1, <2>2, <2>3 DEF NewerMark, MarkHasEvents
<1> QED
  BY <1>2, <1>3

LEMMA RemovedIfUnchangedMark ==
    ASSUME NEW u \in Uuids, NEW c \in Marks, MarkHasEvents(u, c),
           NEW seen \in Marks, seen.known > 0 => DeletedSince(u, seen.known)
    PROVE  NewerMark(u, c, RemovedIfUnchanged(c, seen))
<1> DEFINE n == [c EXCEPT !.active = FALSE, !.full = Missing]
<1>1. n \in Marks /\ n.known = c.known /\ ~n.active /\ n.full = Missing
  BY DEF Marks, Missing
<1>2. c.known \in Nat
  BY DEF Marks
<1>3. RemovedIfUnchanged(c, seen) = c \/ (c.known = seen.known /\ RemovedIfUnchanged(c, seen) = n)
  BY DEF RemovedIfUnchanged
<1> HIDE DEF n
<1> QED
  BY <1>1, <1>2, <1>3 DEF NewerMark, MarkHasEvents

LEMMA ReloadedMark ==
    ASSUME AuthCacheInv, NEW u \in Uuids, NEW c \in Marks, MarkHasEvents(u, c),
           NEW version \in Nat, version # Missing => UpdateOf(u, version)
    PROVE  NewerMark(u, c, Reloaded(c, version))
<1> DEFINE n == [c EXCEPT !.full = Missing]
<1>1. n \in Marks /\ n.known = c.known /\ n.active = c.active /\ n.full = Missing
  BY DEF Marks, Missing
<1>2. c.known \in Nat
  BY DEF Marks
<1>3. CASE version = Missing \/ Superseded(c, version)
  <2>1. Reloaded(c, version) = n
    BY <1>3 DEF Reloaded
  <2> HIDE DEF n
  <2> QED
    BY <1>1, <1>2, <2>1 DEF NewerMark, MarkHasEvents
<1>4. CASE ~(version = Missing \/ Superseded(c, version))
  <2>1. Reloaded(c, version) = Stored(c, version, Missing)
    BY <1>4 DEF Reloaded, Stored
  <2> QED
    BY <1>4, <2>1, StoredMark
<1> QED
  BY <1>3, <1>4

LEMMA AppliedMark ==
    ASSUME AuthCacheInv, NEW o \in CacheOperations, o.read, ReadHasEvents(o)
    PROVE  LET n == Applied(cache[o.uuid], o)
           IN /\ NewerMark(o.uuid, cache[o.uuid], n)
              /\ o.kind \in {"remove", "tombstone"} => n.known >= o.version
              /\ o.kind = "refresh" /\ o.version # Missing => n.known >= o.version
<1> DEFINE c == cache[o.uuid]
           u == o.uuid
<1>1. /\ o.kind \in ReadKinds \cup {"write", "cache", "remove", "tombstone"} /\ u \in Uuids
      /\ o.seen \in Marks /\ o.version \in Nat
  BY OperationFields
<1>2. c \in Marks /\ MarkHasEvents(u, c) /\ c.known \in Nat
  BY <1>1, RowFields DEF AuthCacheInv, CacheHasEvents
<1> HIDE DEF c, u
<1>3. /\ o.kind # "write" /\ (o.kind = "cache" => UpdateOf(u, o.version))
      /\ o.kind \in {"remove", "tombstone"} => DeletionOf(u, o.version)
      /\ o.kind \in ReadKinds /\ o.version = Missing => (o.seen.known > 0 => DeletedSince(u, o.seen.known))
      /\ o.kind \in ReadKinds /\ o.version # Missing => UpdateOf(u, o.version)
  BY DEF ReadHasEvents, u
<1> SUFFICES /\ NewerMark(u, c, Applied(c, o))
             /\ o.kind \in {"remove", "tombstone"} => Applied(c, o).known >= o.version
             /\ o.kind = "refresh" /\ o.version # Missing => Applied(c, o).known >= o.version
  BY DEF c, u
<1>4. CASE o.kind = "cache"
  <2>1. Applied(c, o) = Stored(c, o.version, o.version)
    BY <1>4 DEF Applied
  <2> QED
    BY <1>1, <1>2, <1>3, <1>4, <2>1, StoredMark
<1>5. CASE o.kind \in {"remove", "tombstone"}
  <2>1. Applied(c, o) = Removed(c, o.version)
    BY <1>5 DEF Applied
  <2> QED
    BY <1>1, <1>2, <1>3, <1>5, <2>1, RemovedMark
<1>6. CASE o.kind = "load"
  <2>1. Applied(c, o) = Reloaded(c, o.version)
    BY <1>6 DEF Applied
  <2> QED
    BY <1>1, <1>2, <1>3, <1>6, <2>1, ReloadedMark DEF ReadKinds
<1>7. CASE o.kind = "get" /\ o.version # Missing
  <2>1. Applied(c, o) = Stored(c, o.version, o.version)
    BY <1>7 DEF Applied
  <2> QED
    BY <1>1, <1>2, <1>3, <1>7, <2>1, StoredMark DEF ReadKinds
<1>8. CASE o.kind \in {"observe", "refresh"} /\ o.version # Missing
  <2>1. Applied(c, o) = Stored(c, o.version, Missing)
    BY <1>8 DEF Applied
  <2> QED
    BY <1>1, <1>2, <1>3, <1>8, <2>1, StoredMark DEF ReadKinds
<1>9. CASE o.kind \in {"get", "refresh"} /\ o.version = Missing
  <2>1. Applied(c, o) = RemovedIfUnchanged(c, o.seen)
    BY <1>9 DEF Applied
  <2> QED
    BY <1>1, <1>2, <1>3, <1>9, <2>1, RemovedIfUnchangedMark DEF ReadKinds
<1>10. CASE o.kind = "observe" /\ o.version = Missing
  <2>1. Applied(c, o) = c
    BY <1>10 DEF Applied
  <2> QED
    BY <1>2, <1>10, <2>1 DEF NewerMark
<1> QED
  BY <1>1, <1>3, <1>4, <1>5, <1>6, <1>7, <1>8, <1>9, <1>10 DEF ReadKinds

LEMMA ApplyInv ==
    ASSUME AuthCacheInv, NEW x \in Actors, Apply(x)
    PROVE  AuthCacheInv'
<1> DEFINE o == operation[x]
           u == o.uuid
           n == Applied(cache[u], o)
           next == IF Retries(o) /\ cache[u].full = Missing
                   THEN Operation("get", u, cache[u], FALSE, Missing) ELSE NoOperation
<1>1. /\ o.read /\ cache' = [cache EXCEPT ![u] = n] /\ operation' = [operation EXCEPT ![x] = next]
      /\ lastSeenID' = IF x = Watcher THEN Min({e.id : e \in {y \in events : y.id > lastSeenID}}) ELSE lastSeenID
      /\ UNCHANGED <<authRow, transaction, events, nextEvent>>
  BY DEF Apply
<1>2. AuthTypes /\ o \in CacheOperations /\ o # NoOperation /\ u \in Uuids
  BY <1>1, IdleOperation, OperationFields DEF AuthCacheInv, AuthTypes
<1>3. ReadHasEvents(o)
  BY <1>2 DEF AuthCacheInv, ReadsHaveEvents
<1>4. /\ NewerMark(u, cache[u], n)
      /\ o.kind \in {"remove", "tombstone"} => n.known >= o.version
      /\ o.kind = "refresh" /\ o.version # Missing => n.known >= o.version
  BY <1>1, <1>2, <1>3, AppliedMark
<1> HIDE DEF n
<1>5. cache'[u] = n /\ \A v \in Uuids : v # u => cache'[v] = cache[v]
  BY <1>1, <1>2 DEF AuthTypes
<1>6. n.known \in Nat /\ n \in Marks
  BY <1>4 DEF NewerMark, Marks
<1>7. \A v \in Uuids : cache'[v].known \in Nat /\ cache'[v].known >= cache[v].known
  BY <1>4, <1>5, <1>6, RowFields DEF NewerMark
<1>8. /\ next = NoOperation \/ (next \in CacheOperations /\ next.uuid = u /\ next.seen = cache[u] /\ ~next.read)
      /\ x = Watcher => next = NoOperation
  <2>1. Operation("get", u, cache[u], FALSE, Missing) \in CacheOperations
    BY <1>2, RowFields DEF Operation, CacheOperations, ReadKinds, Missing
  <2>2. x = Watcher => o.kind \in {"tombstone", "refresh"}
    BY <1>2 DEF AuthCacheInv, WatcherAtEvent, WatchesEvent
  <2>3. o.kind \in {"tombstone", "refresh"} => ~Retries(o)
    BY DEF Retries
  <2> QED
    BY <2>1, <2>2, <2>3 DEF Operation
<1> HIDE DEF next
<1>9. OperationGoesOn(x, next)
  BY <1>1, <1>2, <1>8, RowFields DEF OperationGoesOn, ReadHasEvents
<1>10. /\ operation' \in [Actors -> CacheOperations \cup {NoOperation}]
       /\ ReadsHaveEvents' /\ WatcherAtEvent'
  BY <1>1, <1>8, <1>9, OperationKept
<1>11. CacheHasEvents'
  <2> SUFFICES ASSUME NEW v \in Uuids PROVE MarkHasEvents(v, cache[v])'
    BY DEF CacheHasEvents
  <2>1. MarkHasEvents(v, cache'[v])
    BY <1>4, <1>5 DEF NewerMark, AuthCacheInv, CacheHasEvents
  <2> QED
    BY <1>1, <2>1 DEF MarkHasEvents, UpdateOf, DeletedSince
<1>12. CASE x # Watcher
  <2>1. lastSeenID' = lastSeenID
    BY <1>1, <1>12
  <2>2. AuthTypes'
    BY <1>1, <1>2, <1>6, <1>10, <2>1 DEF AuthTypes
  <2>3. EventsTakeEffect'
    <3> SUFFICES ASSUME NEW e \in events, e.id <= lastSeenID, ~(cache'[e.uuid].known >= e.version)
                 PROVE  \E d \in events : d.uuid = e.uuid /\ d.op = "delete" /\ d.version > e.version /\ d.id > lastSeenID
      BY <1>1, <2>1 DEF EventsTakeEffect
    <3>1. ~(cache[e.uuid].known >= e.version)
      BY <1>7, EventFields, RowFields
    <3> QED
      BY <3>1 DEF AuthCacheInv, EventsTakeEffect
  <2> QED
    BY <1>1, <1>10, <1>11, <2>1, <2>2, <2>3, TableKept, CommitsKept DEF AuthCacheInv
<1>13. CASE x = Watcher
  <2>1. PICK e \in events : NextToWatch(e) /\ WatchesEvent(o, e)
    BY <1>2, <1>13 DEF AuthCacheInv, WatcherAtEvent
  <2> DEFINE ids == {y.id : y \in {z \in events : z.id > lastSeenID}}
  <2>2. lastSeenID' = e.id
    <3>1. ids \in SUBSET Nat /\ e.id \in ids /\ \A i \in ids : e.id <= i
      BY <2>1, EventFields DEF NextToWatch
    <3> HIDE DEF ids
    <3>2. Min(ids) = e.id
      <4>1. Min(ids) \in ids /\ \A i \in ids : Min(ids) <= i
        BY <3>1 DEF Min
      <4>2. Min(ids) \in Nat /\ e.id \in Nat /\ e.id <= Min(ids) /\ Min(ids) <= e.id
        BY <3>1, <4>1
      <4> QED
        BY <4>2
    <3> QED
      BY <1>1, <1>13, <3>2 DEF ids
  <2>3. lastSeenID \in Nat /\ e.id \in Nat /\ lastSeenID < e.id
    BY <1>2, <2>1, EventFields DEF NextToWatch, AuthTypes
  <2>4. AuthTypes'
    BY <1>1, <1>2, <1>6, <1>10, <2>2, <2>3 DEF AuthTypes
  <2>5. CommitsInOrder'
    BY <1>1, <2>2 DEF AuthCacheInv, CommitsInOrder
  <2>6. \/ cache'[e.uuid].known >= e.version
        \/ \E d \in events : d.uuid = e.uuid /\ d.op = "delete" /\ d.version > e.version /\ d.id > e.id
    <3>1. o.uuid = e.uuid /\ e.version \in Nat
      BY <2>1, EventFields DEF WatchesEvent
    <3>2. CASE o.kind = "tombstone"
      BY <1>4, <1>5, <2>1, <3>1, <3>2 DEF WatchesEvent
    <3>3. CASE o.kind = "refresh" /\ o.version # Missing
      <4>1. o.version >= e.version /\ n.known >= o.version /\ o.version \in Nat
        BY <1>1, <1>2, <1>4, <2>1, <3>3, OperationFields DEF WatchesEvent
      <4> QED
        BY <1>5, <1>6, <3>1, <4>1
    <3>4. CASE o.kind = "refresh" /\ o.version = Missing
      <4>1. e.op = "update" /\ DeletedSince(e.uuid, e.version)
        BY <1>1, <2>1, <3>4 DEF WatchesEvent
      <4>2. PICK d \in events : d.uuid = e.uuid /\ d.op = "delete" /\ d.version >= e.version
        BY <4>1 DEF DeletedSince
      <4>3. d.version # e.version
        BY <4>1, <4>2 DEF AuthCacheInv, EventsOrdered
      <4>4. d.version > e.version /\ d.version \in Nat /\ d.id \in Nat
        BY <3>1, <4>2, <4>3, EventFields
      <4>5. e.id < d.id
        BY <3>1, <4>2, <4>4 DEF AuthCacheInv, EventsOrdered
      <4> QED
        BY <2>3, <4>2, <4>4, <4>5
    <3> QED
      BY <2>1, <3>2, <3>3, <3>4 DEF WatchesEvent
  <2>7. EventsTakeEffect'
    <3> SUFFICES ASSUME NEW f \in events, f.id <= e.id, ~(cache'[f.uuid].known >= f.version)
                 PROVE  \E d \in events : d.uuid = f.uuid /\ d.op = "delete" /\ d.version > f.version /\ d.id > e.id
      BY <1>1, <2>2 DEF EventsTakeEffect
    <3>1. f.id \in Nat /\ f.version \in Nat /\ f.uuid \in Uuids /\ cache[f.uuid].known \in Nat
      BY EventFields, RowFields
    <3>2. CASE f.id > lastSeenID
      <4>1. f.id = e.id
        BY <2>1, <2>3, <3>1, <3>2 DEF NextToWatch
      <4>2. f = e
        BY <4>1 DEF AuthCacheInv, EventsOrdered
      <4> QED
        BY <2>6, <4>2
    <3>3. CASE f.id <= lastSeenID
      <4>1. ~(cache[f.uuid].known >= f.version)
        BY <1>7, <3>1
      <4>2. PICK d \in events : d.uuid = f.uuid /\ d.op = "delete" /\ d.version > f.version /\ d.id > lastSeenID
        BY <3>3, <4>1 DEF AuthCacheInv, EventsTakeEffect
      <4>3. d.id \in Nat /\ e.id <= d.id /\ d.version \in Nat
        BY <2>1, <4>2, EventFields DEF NextToWatch
      <4>4. CASE d.id > e.id
        BY <4>2, <4>4
      <4>5. CASE d.id = e.id
        <5>1. d = e
          BY <4>5 DEF AuthCacheInv, EventsOrdered
        <5>2. e.uuid = f.uuid /\ e.version > f.version /\ cache'[f.uuid].known \in Nat /\ e.version \in Nat
          BY <1>7, <3>1, <4>2, <4>3, <5>1
        <5>3. ~(cache'[e.uuid].known >= e.version)
          BY <3>1, <5>2
        <5>4. PICK g \in events : g.uuid = e.uuid /\ g.op = "delete" /\ g.version > e.version /\ g.id > e.id
          BY <2>6, <5>3
        <5>5. g.version \in Nat
          BY EventFields
        <5>6. g.version > f.version
          BY <3>1, <5>2, <5>4, <5>5
        <5> QED
          BY <5>2, <5>4, <5>6
      <4> QED
        BY <2>3, <4>3, <4>4, <4>5
    <3> QED
      BY <2>3, <3>1, <3>2, <3>3 DEF AuthCacheInv, AuthTypes
  <2> QED
    BY <1>1, <1>10, <1>11, <2>4, <2>5, <2>7, TableKept DEF AuthCacheInv
<1> QED
  BY <1>12, <1>13

LEMMA NextAuthCacheInv == AuthCacheInv /\ [AuthCacheNext]_authCacheVars => AuthCacheInv'
<1> SUFFICES ASSUME AuthCacheInv, [AuthCacheNext]_authCacheVars PROVE AuthCacheInv'
  OBVIOUS
<1>1. CASE Writes
  BY <1>1, BeginWriteInv, AppendEventInv, CommitWriteInv DEF Writes
<1>2. ASSUME NEW t \in Threads, NEW u \in Uuids, NEW kind \in ReadKinds, StartRead(t, u, kind)
      PROVE  AuthCacheInv'
  BY <1>2, StartReadInv
<1>3. CASE TakeEvent
  BY <1>3, TakeEventInv
<1>4. ASSUME NEW x \in Actors, ReadRow(x) \/ Apply(x) PROVE AuthCacheInv'
  BY <1>4, ReadRowInv, ApplyInv
<1>5. ASSUME NEW u \in Uuids, InvalidateFullAuth(u) PROVE AuthCacheInv'
  BY <1>5, InvalidateInv
<1>6. CASE UNCHANGED authCacheVars
  BY <1>6 DEF authCacheVars, AuthCacheInv, AuthTypes, EventsOrdered, CommitsInOrder, RowsHaveEvents,
     CacheHasEvents, MarkHasEvents, ReadsHaveEvents, ReadHasEvents, WatcherAtEvent, NextToWatch,
     WatchesEvent, EventsTakeEffect, UpdateOf, DeletionOf, DeletedSince
<1> QED
  BY <1>1, <1>2, <1>3, <1>4, <1>5, <1>6 DEF AuthCacheNext, ReadKinds

\* However late reads, writes and events take effect in a Home's cache, the cache knows what every
\* event it has passed reported, or the deletion that is to follow; and when nothing is under way
\* it holds the table (runtime.go, events.go).
THEOREM CacheFollows == AuthCacheSpec => []CacheFollowsTable
<1>1. AuthCacheInv => CacheFollowsTable
  BY QuietCache DEF AuthCacheInv, CacheFollowsTable
<1> QED
  BY <1>1, AuthCacheInitInv, NextAuthCacheInv, PTL DEF AuthCacheSpec

LEMMA RevivedMark ==
    ASSUME AuthCacheInv, NEW o \in CacheOperations, o.read, ReadHasEvents(o),
           ~cache[o.uuid].active, Applied(cache[o.uuid], o).active, cache[o.uuid].known > 0
    PROVE  Applied(cache[o.uuid], o).known > cache[o.uuid].known
<1> DEFINE c == cache[o.uuid]
<1>1. c.known \in Nat /\ o.version \in Nat
  BY OperationFields, RowFields
<1>2. ASSUME NEW full, Stored(c, o.version, full).active
      PROVE  Stored(c, o.version, full).known > c.known
  <2>1. ~Superseded(c, o.version)
    BY <1>2 DEF Stored
  <2>2. Stored(c, o.version, full).known = o.version
    BY <2>1 DEF Stored
  <2> QED
    BY <1>1, <2>1, <2>2 DEF Superseded
<1>3. ~Removed(c, o.version).active
  BY DEF Removed
<1>4. ~RemovedIfUnchanged(c, o.seen).active
  <2>1. c \in Marks
    BY OperationFields, RowFields
  <2> QED
    BY <2>1 DEF RemovedIfUnchanged, Marks
<1>5. Reloaded(c, o.version).active => Reloaded(c, o.version) = Stored(c, o.version, Missing)
  <2>1. c \in Marks
    BY OperationFields, RowFields
  <2> QED
    BY <2>1 DEF Reloaded, Stored, Marks
<1>6. \/ Applied(c, o) = c \/ Applied(c, o) = Removed(c, o.version)
      \/ Applied(c, o) = RemovedIfUnchanged(c, o.seen) \/ Applied(c, o) = Reloaded(c, o.version)
      \/ \E full : Applied(c, o) = Stored(c, o.version, full)
  BY DEF Applied
<1> QED
  BY <1>2, <1>3, <1>4, <1>5, <1>6

\* A credential that the cache of a Home saw go does not come back from a read made before
\* (authSnapshotSupersededLocked): it takes a later version.
THEOREM DeletedStaysDeleted == AuthCacheSpec => NoResurrection
<1> DEFINE Revives == \A u \in Uuids : (~cache[u].active /\ cache'[u].active /\ cache[u].known > 0)
                                           => cache'[u].known > cache[u].known
<1>1. AuthCacheInv /\ [AuthCacheNext]_authCacheVars => Revives
  <2> SUFFICES ASSUME AuthCacheInv, [AuthCacheNext]_authCacheVars, NEW u \in Uuids,
                      ~cache[u].active, cache'[u].active, cache[u].known > 0
               PROVE  cache'[u].known > cache[u].known
    OBVIOUS
  <2>1. cache \in [Uuids -> Marks]
    BY DEF AuthCacheInv, AuthTypes
  <2>2. PICK x \in Actors : Apply(x)
    <3>1. CASE cache' = cache
      BY <3>1
    <3>2. ASSUME NEW v \in Uuids, InvalidateFullAuth(v) PROVE FALSE
      BY <2>1, <3>2 DEF InvalidateFullAuth, Marks
    <3> QED
      BY <3>1, <3>2 DEF AuthCacheNext, Writes, BeginWrite, AppendEvent, CommitWrite, StartRead, TakeEvent,
                        ReadRow, authCacheVars
  <2> DEFINE o == operation[x]
  <2>3. o.read /\ cache' = [cache EXCEPT ![o.uuid] = Applied(cache[o.uuid], o)]
    BY <2>2 DEF Apply
  <2>4. o \in CacheOperations /\ ReadHasEvents(o)
    BY <2>3, IdleOperation DEF AuthCacheInv, AuthTypes, ReadsHaveEvents
  <2>5. o.uuid = u
    BY <2>1, <2>3
  <2>6. cache'[u] = Applied(cache[u], o)
    BY <2>1, <2>3, <2>5
  <2> HIDE DEF o
  <2> QED
    BY <2>3, <2>4, <2>5, <2>6, RevivedMark
<1> QED
  BY <1>1, AuthCacheInitInv, NextAuthCacheInv, PTL DEF AuthCacheSpec, NoResurrection

-------------------------------------------------------------------------------
(***************************************************************************)
(* The model registry.  The effect of a call on one registration is a      *)
(* change of its count and of two provider counts; the sums over the       *)
(* clients change by the same.                                             *)
(***************************************************************************)
RegistrySpec == RegistryInit /\ [][RegistryNext]_registryVars

QuotaMarks == [client : RegClients, recent : BOOLEAN]
SuspensionMarks == [client : RegClients, reason : {"quota", "other"}]
Registrations ==
    [count : Nat, providers : [RegProviders -> Nat], quota : SUBSET QuotaMarks, suspended : SUBSET SuspensionMarks]

RegistryTypes ==
    /\ clientModels \in [RegClients -> [RegModels -> Nat]]
    /\ clientProviders \in [RegClients -> RegProviders]
    /\ models \in [RegModels -> Registrations]

\* Each client has at most one mark of a kind, and one that is cooling is not blocked otherwise.
MarksAreSingle(r) ==
    /\ \A k, l \in r.quota : k.client = l.client => k = l
    /\ \A k, l \in r.suspended : k.client = l.client => k = l
    /\ \A k \in r.quota, l \in r.suspended : k.client = l.client => l.reason = "quota"

\* Only clients that list the model have marks.
MarksAreListed == \A m \in RegModels : \A k \in models[m].quota \cup models[m].suspended : clientModels[k.client][m] > 0

RegistryInv ==
    /\ RegistryTypes
    /\ CountsMatchListings
    /\ \A m \in RegModels : MarksAreSingle(models[m])
    /\ MarksAreListed

LEMMA MaxOfZero ==
    ASSUME NEW x \in Int
    PROVE  Max({0, x}) = IF x > 0 THEN x ELSE 0
<1>1. CASE x > 0
  <2>1. \E y \in {0, x} : \A z \in {0, x} : y >= z
    BY <1>1
  <2> QED
    BY <1>1, <2>1 DEF Max
<1>2. CASE ~ (x > 0)
  <2>1. \E y \in {0, x} : \A z \in {0, x} : y >= z
    BY <1>2
  <2> QED
    BY <1>2, <2>1 DEF Max
<1> QED
  BY <1>1, <1>2

LEMMA MinOfTwo ==
    ASSUME NEW x \in Int, NEW y \in Int
    PROVE  Min({x, y}) = IF x <= y THEN x ELSE y
<1>1. CASE x <= y
  <2>1. \E v \in {x, y} : \A z \in {x, y} : v <= z
    BY <1>1
  <2> QED
    BY <1>1, <2>1 DEF Min
<1>2. CASE ~ (x <= y)
  <2>1. \E v \in {x, y} : \A z \in {x, y} : v <= z
    BY <1>2
  <2> QED
    BY <1>2, <2>1 DEF Min
<1> QED
  BY <1>1, <1>2

\* What the parts of a call do to a registration.
FewerMarks(r, after) == after.quota \subseteq r.quota /\ after.suspended \subseteq r.suspended
NoMarksOf(r, c) == \A k \in r.quota \cup r.suspended : k.client # c

CountsChange(r, p, change, after) ==
    /\ after \in Registrations
    /\ after.count = r.count /\ after.quota = r.quota /\ after.suspended = r.suspended
    /\ \A q \in RegProviders \ {NoProvider} :
          after.providers[q] = IF q # p THEN r.providers[q]
                               ELSE IF r.providers[q] + change > 0 THEN r.providers[q] + change ELSE 0

LEMMA CountedIs ==
    ASSUME NEW r \in Registrations, NEW p \in RegProviders, NEW change \in Int
    PROVE  CountsChange(r, p, change, Counted(r, p, change))
<1> DEFINE n == Max({0, r.providers[p] + change})
           counts == [r.providers EXCEPT ![p] = n]
           after == [r EXCEPT !.providers = counts]
<1>1. r.providers \in [RegProviders -> Nat]
  BY DEF Registrations
<1>2. n = (IF r.providers[p] + change > 0 THEN r.providers[p] + change ELSE 0) /\ n \in Nat
  BY <1>1, MaxOfZero
<1>3. Counted(r, p, change) = IF p = NoProvider THEN r ELSE after
  BY DEF Counted
<1> HIDE DEF n
<1>4. counts \in [RegProviders -> Nat] /\ \A q \in RegProviders : counts[q] = IF q = p THEN n ELSE r.providers[q]
  BY <1>1, <1>2
<1> HIDE DEF counts
<1>5. after \in Registrations /\ after.count = r.count /\ after.quota = r.quota
      /\ after.suspended = r.suspended /\ after.providers = counts
  BY <1>4 DEF Registrations
<1> HIDE DEF after
<1>6. CASE p = NoProvider
  BY <1>3, <1>6 DEF CountsChange
<1>7. CASE p # NoProvider
  BY <1>2, <1>3, <1>4, <1>5, <1>7 DEF CountsChange
<1> QED
  BY <1>6, <1>7

LEMMA UnmarkedIs ==
    ASSUME NEW r \in Registrations, NEW c
    PROVE  /\ Unmarked(r, c) \in Registrations
           /\ Unmarked(r, c).count = r.count /\ Unmarked(r, c).providers = r.providers
           /\ FewerMarks(r, Unmarked(r, c)) /\ NoMarksOf(Unmarked(r, c), c)
  BY DEF Unmarked, Registrations, FewerMarks, NoMarksOf

Adds(r, p, k, after) ==
    /\ after \in Registrations
    /\ after.count = r.count + k /\ after.quota = r.quota /\ after.suspended = r.suspended
    /\ \A q \in RegProviders \ {NoProvider} : after.providers[q] = r.providers[q] + (IF q = p THEN k ELSE 0)

LEMMA WithAddedIs ==
    ASSUME NEW r \in Registrations, NEW p \in RegProviders, NEW k \in Nat
    PROVE  Adds(r, p, k, WithAdded(r, p, k))
<1> DEFINE s == [r EXCEPT !.count = r.count + k]
<1>1. s \in Registrations /\ s.count = r.count + k /\ s.quota = r.quota /\ s.suspended = r.suspended
      /\ s.providers = r.providers
  BY DEF Registrations
<1>2. WithAdded(r, p, k) = Counted(s, p, k)
  BY DEF WithAdded
<1>3. \A q \in RegProviders : r.providers[q] \in Nat
  BY DEF Registrations
<1> HIDE DEF s
<1>4. k \in Int
  OBVIOUS
<1>5. CountsChange(s, p, k, WithAdded(r, p, k))
  BY <1>1, <1>2, <1>4, CountedIs
<1> DEFINE after == WithAdded(r, p, k)
<1> HIDE DEF after
<1>6. CountsChange(s, p, k, after)
  BY <1>5 DEF after
<1>7. ASSUME NEW q \in RegProviders \ {NoProvider}
      PROVE  after.providers[q] = r.providers[q] + (IF q = p THEN k ELSE 0)
  <2>1. after.providers[q] = IF q # p THEN r.providers[q] ELSE IF r.providers[q] + k > 0 THEN r.providers[q] + k ELSE 0
    BY <1>1, <1>6 DEF CountsChange
  <2>2. r.providers[q] \in Nat
    BY <1>3
  <2>3. CASE q # p
    BY <2>1, <2>2, <2>3
  <2>4. CASE q = p
    <3>1. r.providers[q] + k > 0 \/ r.providers[q] + k = 0
      BY <2>2
    <3> QED
      BY <2>1, <2>4, <3>1
  <2> QED
    BY <2>3, <2>4
<1>8. Adds(r, p, k, after)
  BY <1>1, <1>6, <1>7 DEF CountsChange, Adds
<1> QED
  BY <1>8 DEF after

Removes(r, c, p, k, after) ==
    /\ after \in Registrations
    /\ FewerMarks(r, after)
    /\ k > 0 => NoMarksOf(after, c)
    /\ after.count = IF r.count <= k /\ k > 0 THEN 0 ELSE r.count - k
    /\ \A q \in RegProviders \ {NoProvider} :
          after.providers[q] = IF k = 0 THEN r.providers[q]
                               ELSE IF r.count <= k THEN 0
                               ELSE IF q # p THEN r.providers[q]
                               ELSE IF r.providers[q] > k THEN r.providers[q] - k ELSE 0

LEMMA WithRemovedIs ==
    ASSUME NEW r \in Registrations, NEW c, NEW p \in RegProviders, NEW k \in Nat
    PROVE  Removes(r, c, p, k, WithRemoved(r, c, p, k))
<1>0. \A q \in RegProviders : r.providers[q] \in Nat
  BY DEF Registrations
<1>1. CASE k = 0
  <2>1. WithRemoved(r, c, p, k) = r
    BY <1>1 DEF WithRemoved
  <2>2. r.count = r.count - 0 /\ ~ (0 > 0)
    BY DEF Registrations
  <2> QED
    BY <1>1, <2>1, <2>2 DEF Removes, FewerMarks
<1>2. CASE k > 0 /\ r.count <= k
  <2>1. NoRegistration \in Registrations /\ FewerMarks(r, NoRegistration) /\ NoMarksOf(NoRegistration, c)
        /\ NoRegistration.count = 0 /\ \A q \in RegProviders : NoRegistration.providers[q] = 0
    BY DEF NoRegistration, Registrations, FewerMarks, NoMarksOf
  <2>2. WithRemoved(r, c, p, k) = NoRegistration /\ k # 0
    BY <1>2 DEF WithRemoved
  <2> QED
    BY <1>2, <2>1, <2>2 DEF Removes
<1>3. CASE k > 0 /\ ~ (r.count <= k)
  <2> DEFINE s == [r EXCEPT !.count = r.count - k]
             u == Unmarked(s, c)
             after == WithRemoved(r, c, p, k)
             less == -k
  <2>1. s \in Registrations /\ s.count = r.count - k /\ s.quota = r.quota /\ s.suspended = r.suspended
        /\ s.providers = r.providers
    BY <1>3 DEF Registrations
  <2>2. after = Counted(u, p, less)
    BY <1>3 DEF WithRemoved
  <2>3. less \in Int /\ less = 0 - k
    OBVIOUS
  <2> HIDE DEF s, after, less
  <2>4. u \in Registrations /\ u.count = s.count /\ u.providers = s.providers
        /\ FewerMarks(s, u) /\ NoMarksOf(u, c)
    BY <2>1, UnmarkedIs
  <2> HIDE DEF u
  <2>5. CountsChange(u, p, less, after)
    BY <2>2, <2>3, <2>4, CountedIs
  <2>6. FewerMarks(r, after) /\ NoMarksOf(after, c)
    BY <2>1, <2>4, <2>5 DEF FewerMarks, NoMarksOf, CountsChange
  <2>7. ASSUME NEW q \in RegProviders \ {NoProvider}
        PROVE  after.providers[q] = IF q # p THEN r.providers[q] ELSE IF r.providers[q] > k THEN r.providers[q] - k ELSE 0
    <3>1. after.providers[q] = IF q # p THEN r.providers[q]
                               ELSE IF r.providers[q] + less > 0 THEN r.providers[q] + less ELSE 0
      BY <2>1, <2>4, <2>5 DEF CountsChange
    <3>2. r.providers[q] \in Nat
      BY <1>0
    <3>3. CASE q # p
      BY <3>1, <3>3
    <3>4. CASE q = p
      <4>1. CASE r.providers[q] > k
        <5>1. r.providers[q] + less > 0 /\ r.providers[q] + less = r.providers[q] - k
          BY <2>3, <3>2, <4>1
        <5> QED
          BY <3>1, <3>4, <4>1, <5>1
      <4>2. CASE ~ (r.providers[q] > k)
        <5>1. ~ (r.providers[q] + less > 0)
          BY <2>3, <3>2, <4>2
        <5> QED
          BY <3>1, <3>4, <4>2, <5>1
      <4> QED
        BY <4>1, <4>2
    <3> QED
      BY <3>3, <3>4
  <2>8. after \in Registrations /\ after.count = r.count - k
    BY <2>1, <2>4, <2>5 DEF CountsChange
  <2>9. Removes(r, c, p, k, after)
    <3>1. k # 0 /\ k > 0 /\ ~ (r.count <= k /\ k > 0) /\ ~ (r.count <= k)
      BY <1>3
    <3> QED
      BY <2>6, <2>7, <2>8, <3>1 DEF Removes
  <2> QED
    BY <2>9 DEF after
<1>4. k = 0 \/ k > 0
  OBVIOUS
<1>5. r.count \in Nat
  BY DEF Registrations
<1> QED
  BY <1>1, <1>2, <1>3, <1>4, <1>5

\* A registration r counts the listings of a client, from its provider, once each.
Carries(r, old, from) ==
    /\ r \in Registrations
    /\ old <= r.count
    /\ \A q \in RegProviders \ {NoProvider} :
          IF q = from THEN old <= r.providers[q] /\ r.providers[q] <= r.count ELSE r.providers[q] + old <= r.count

\* The client's listings of the model go from old to new, and from one provider to another.
Changes(r, c, old, new, from, to, after) ==
    /\ after \in Registrations
    /\ FewerMarks(r, after)
    /\ old > 0 => NoMarksOf(after, c)
    /\ after.count = r.count - old + new
    /\ \A q \in RegProviders \ {NoProvider} :
          after.providers[q] = r.providers[q] - (IF q = from THEN old ELSE 0) + (IF q = to THEN new ELSE 0)

LEMMA WithoutListings ==
    ASSUME NEW r, NEW c, NEW old \in Nat, NEW from \in RegProviders, NEW to, Carries(r, old, from)
    PROVE  Changes(r, c, old, 0, from, to, WithRemoved(r, c, from, old))
<1> DEFINE after == WithRemoved(r, c, from, old)
<1>1. r \in Registrations
  BY DEF Carries
<1>2. r.count \in Nat /\ \A q \in RegProviders : r.providers[q] \in Nat
  BY <1>1 DEF Registrations
<1>3. Removes(r, c, from, old, after)
  BY <1>1, WithRemovedIs
<1> HIDE DEF after
<1>4. after.count = r.count - old + 0
  BY <1>2, <1>3 DEF Removes, Carries
<1>5. ASSUME NEW q \in RegProviders \ {NoProvider}
      PROVE  after.providers[q] = r.providers[q] - (IF q = from THEN old ELSE 0) + (IF q = to THEN 0 ELSE 0)
  <2>1. r.providers[q] \in Nat
    BY <1>2
  <2>2. after.providers[q] = IF old = 0 THEN r.providers[q]
                             ELSE IF r.count <= old THEN 0
                             ELSE IF q # from THEN r.providers[q]
                             ELSE IF r.providers[q] > old THEN r.providers[q] - old ELSE 0
    BY <1>3 DEF Removes
  <2>3. CASE q = from
    <3>1. old <= r.providers[q] /\ r.providers[q] <= r.count
      BY <2>3 DEF Carries
    <3> QED
      BY <1>2, <2>1, <2>2, <2>3, <3>1
  <2>4. CASE q # from
    <3>1. r.providers[q] + old <= r.count
      BY <2>4 DEF Carries
    <3> QED
      BY <1>2, <2>1, <2>2, <2>4, <3>1
  <2> QED
    BY <2>3, <2>4
<1>6. Changes(r, c, old, 0, from, to, after)
  BY <1>3, <1>4, <1>5 DEF Changes, Removes
<1> QED
  BY <1>6 DEF after

LEMMA ReconciledIs ==
    ASSUME NEW r, NEW c, NEW old \in Nat, NEW new \in Nat, NEW from \in RegProviders, NEW to \in RegProviders,
           Carries(r, old, from)
    PROVE  Changes(r, c, old, new, from, to, Reconciled(r, c, old, new, from, to))
<1> DEFINE left == Moved(r, old, new, from, to)
           surplus == Max({0, old - new})
           missing == Max({0, new - old})
           both == Min({old, new})
           removed == WithRemoved(left, c, from, surplus)
           added == WithAdded(removed, to, missing)
           clean == Unmarked(added, c)
           after == Joined(clean, old, new, from, to)
<1>1. r \in Registrations
  BY DEF Carries
<1>2. r.count \in Nat /\ \A q \in RegProviders : r.providers[q] \in Nat
  BY <1>1 DEF Registrations
<1>3. /\ surplus = (IF old > new THEN old - new ELSE 0)
      /\ missing = (IF new > old THEN new - old ELSE 0)
      /\ both = (IF old <= new THEN old ELSE new)
  BY MaxOfZero, MinOfTwo
<1>4. surplus \in Nat /\ missing \in Nat /\ both \in Nat
  BY <1>3
<1>5. CASE new = 0
  <2>1. left = r
    BY <1>5 DEF Moved
  <2>2. surplus = old
    BY <1>3, <1>5
  <2>3. Reconciled(r, c, old, new, from, to) = WithRemoved(r, c, from, old)
    BY <1>5, <2>1, <2>2 DEF Reconciled
  <2> QED
    BY <1>5, <2>3, WithoutListings
<1>6. CASE new # 0
  <2>0. Reconciled(r, c, old, new, from, to) = after
    BY <1>6 DEF Reconciled
  <2> HIDE DEF surplus, missing
  <2> DEFINE gone == IF from # to THEN both ELSE 0
             less == -both
  <2>1. less \in Int /\ less = 0 - both /\ gone \in Nat
    BY <1>4
  <2>2. /\ left \in Registrations /\ left.count = r.count /\ left.quota = r.quota /\ left.suspended = r.suspended
        /\ \A q \in RegProviders \ {NoProvider} :
              left.providers[q] = r.providers[q] - (IF q = from THEN gone ELSE 0)
    <3>1. CASE from # to /\ old > 0
      <4> HIDE DEF both, less
      <4>1. left = Counted(r, from, less)
        BY <1>6, <3>1 DEF Moved, both, less
      <4>2. CountsChange(r, from, less, left)
        BY <1>1, <2>1, <4>1, CountedIs
      <4>3. ASSUME NEW q \in RegProviders \ {NoProvider}
            PROVE  left.providers[q] = r.providers[q] - (IF q = from THEN gone ELSE 0)
        <5>1. left.providers[q] = IF q # from THEN r.providers[q]
                                  ELSE IF r.providers[q] + less > 0 THEN r.providers[q] + less ELSE 0
          BY <4>2 DEF CountsChange
        <5>2. r.providers[q] \in Nat /\ gone = both
          BY <1>2, <3>1
        <5>3. q = from => both <= r.providers[q]
          BY <1>3, <5>2 DEF Carries
        <5> QED
          BY <1>4, <2>1, <5>1, <5>2, <5>3
      <4> QED
        BY <4>2, <4>3 DEF CountsChange
    <3>2. CASE ~ (from # to /\ old > 0)
      <4>1. left = r
        BY <3>2 DEF Moved
      <4>2. gone = 0
        BY <1>3, <3>2
      <4> QED
        BY <1>1, <1>2, <4>1, <4>2
    <3> QED
      BY <3>1, <3>2
  <2> HIDE DEF left, gone, less
  <2>3. Removes(left, c, from, surplus, removed)
    BY <1>4, <2>2, WithRemovedIs
  <2> HIDE DEF removed
  <2>4. Adds(removed, to, missing, added)
    BY <1>4, <2>3, WithAddedIs DEF Removes
  <2> HIDE DEF added
  <2>5. /\ clean \in Registrations /\ clean.count = added.count /\ clean.providers = added.providers
        /\ FewerMarks(added, clean) /\ NoMarksOf(clean, c)
    BY <2>4, UnmarkedIs DEF Adds
  <2> HIDE DEF clean
  <2>6. both \in Int
    BY <1>4
  <2>7. IF from # to THEN CountsChange(clean, to, both, after) ELSE after = clean
    BY <2>5, <2>6, CountedIs DEF Joined
  <2> HIDE DEF both, after
  <2>8. after \in Registrations /\ FewerMarks(r, after) /\ NoMarksOf(after, c) /\ after.count = added.count
    BY <2>2, <2>3, <2>4, <2>5, <2>7 DEF CountsChange, FewerMarks, NoMarksOf, Removes, Adds
  <2>9. removed.count = r.count - surplus
    BY <1>2, <1>3, <1>6, <2>2, <2>3 DEF Removes, Carries
  <2>10. after.count = r.count - old + new
    BY <1>2, <1>3, <2>4, <2>8, <2>9 DEF Adds
  <2>11. ASSUME NEW q \in RegProviders \ {NoProvider}
         PROVE  after.providers[q] = r.providers[q] - (IF q = from THEN old ELSE 0) + (IF q = to THEN new ELSE 0)
    <3>1. r.providers[q] \in Nat
      BY <1>2
    <3>2. left.providers[q] = r.providers[q] - (IF q = from THEN gone ELSE 0)
      BY <2>2
    <3>3. surplus > 0 => ~ (left.count <= surplus)
      BY <1>2, <1>3, <1>6, <2>2 DEF Carries
    <3>4. removed.providers[q] = IF surplus = 0 THEN left.providers[q]
                                 ELSE IF left.count <= surplus THEN 0
                                 ELSE IF q # from THEN left.providers[q]
                                 ELSE IF left.providers[q] > surplus THEN left.providers[q] - surplus ELSE 0
      BY <2>3 DEF Removes
    <3>5. after.providers[q] = IF from = to \/ q # to THEN added.providers[q]
                               ELSE IF added.providers[q] + both > 0 THEN added.providers[q] + both ELSE 0
      BY <2>5, <2>7 DEF CountsChange
    <3>6. added.providers[q] = removed.providers[q] + (IF q = to THEN missing ELSE 0)
      BY <2>4 DEF Adds
    <3>7. gone = IF from # to THEN both ELSE 0
      BY DEF gone
    <3>8. CASE q = from
      <4>1. old <= r.providers[q]
        BY <3>8 DEF Carries
      <4>2. removed.providers[q] = r.providers[q] - gone - surplus
        BY <1>3, <1>4, <3>1, <3>2, <3>3, <3>4, <3>7, <3>8, <4>1
      <4>3. CASE from = to
        BY <1>3, <3>1, <3>5, <3>6, <3>7, <3>8, <4>2, <4>3
      <4>4. CASE from # to
        BY <1>3, <3>1, <3>5, <3>6, <3>7, <3>8, <4>2, <4>4
      <4> QED
        BY <4>3, <4>4
    <3>9. CASE q # from
      <4>1. removed.providers[q] = r.providers[q]
        <5>1. left.providers[q] = r.providers[q]
          BY <3>1, <3>2, <3>9
        <5> QED
          BY <1>4, <3>3, <3>4, <3>9, <5>1
      <4>2. CASE q = to
        BY <1>3, <1>4, <3>1, <3>5, <3>6, <3>9, <4>1, <4>2
      <4>3. CASE q # to
        BY <3>1, <3>5, <3>6, <3>9, <4>1, <4>3
      <4> QED
        BY <4>2, <4>3
    <3> QED
      BY <3>8, <3>9
  <2>12. Changes(r, c, old, new, from, to, after)
    BY <2>8, <2>10, <2>11 DEF Changes
  <2> QED
    BY <2>0, <2>12 DEF after, clean, added, removed, left, both, surplus, missing
<1> QED
  BY <1>5, <1>6

\* The counts of a registration are sums over the clients.
Listings(cm, m) == [c \in RegClients |-> cm[c][m]]
ProviderListings(cm, cp, m, p) == [c \in RegClients |-> IF cp[c] = p THEN cm[c][m] ELSE 0]

CountsAreSums(cm, cp, ms) ==
    \A m \in RegModels :
        /\ ms[m].count = SumFunctionOnSet(Listings(cm, m), RegClients)
        /\ \A p \in RegProviders \ {NoProvider} :
              ms[m].providers[p] = SumFunctionOnSet(ProviderListings(cm, cp, m, p), RegClients)

LEMMA CountsAsSums ==
    /\ CountsMatchListings <=> CountsAreSums(clientModels, clientProviders, models)
    /\ CountsMatchListings' <=> CountsAreSums(clientModels', clientProviders', models')
<1>1. CountsMatchListings <=> CountsAreSums(clientModels, clientProviders, models)
  BY DEF CountsMatchListings, CountsAreSums, Listings, ProviderListings, SumFunction
<1>2. CountsMatchListings' <=> CountsAreSums(clientModels', clientProviders', models')
  BY DEF CountsMatchListings, CountsAreSums, Listings, ProviderListings, SumFunction
<1> QED
  BY <1>1, <1>2

LEMMA CarriesEach ==
    ASSUME RegistryInv, NEW c \in RegClients, NEW m \in RegModels
    PROVE  /\ clientModels[c][m] \in Nat /\ clientProviders[c] \in RegProviders
           /\ Carries(models[m], clientModels[c][m], clientProviders[c])
<1> DEFINE F == Listings(clientModels, m)
           old == clientModels[c][m]
           from == clientProviders[c]
           r == models[m]
<1>1. \A x \in RegClients : F[x] = clientModels[x][m] /\ F[x] \in Nat
  BY DEF RegistryInv, RegistryTypes, Listings
<1>2. r \in Registrations /\ from \in RegProviders
  BY DEF RegistryInv, RegistryTypes
<1>3. r.count = SumFunctionOnSet(F, RegClients)
  BY CountsAsSums DEF RegistryInv, CountsAreSums
<1>4. IsFiniteSet(RegClients)
  BY RegistryAssumption
<1>5. F[c] = old /\ old \in Nat
  BY <1>1
<1> HIDE DEF F
<1>6. old <= r.count /\ r.count \in Nat
  BY <1>1, <1>3, <1>4, <1>5, SumOfNaturals
<1>7. ASSUME NEW q \in RegProviders \ {NoProvider}
      PROVE  IF q = from THEN old <= r.providers[q] /\ r.providers[q] <= r.count ELSE r.providers[q] + old <= r.count
  <2> DEFINE P == ProviderListings(clientModels, clientProviders, m, q)
             G == [x \in RegClients |-> IF x = c THEN old ELSE P[x]]
  <2>1. r.providers[q] = SumFunctionOnSet(P, RegClients)
    BY CountsAsSums DEF RegistryInv, CountsAreSums
  <2>2. \A x \in RegClients : P[x] \in Nat /\ P[x] <= F[x] /\ F[x] \in Nat
    <3> SUFFICES ASSUME NEW x \in RegClients PROVE P[x] \in Nat /\ P[x] <= F[x] /\ F[x] \in Nat
      OBVIOUS
    <3>1. P[x] = IF clientProviders[x] = q THEN clientModels[x][m] ELSE 0
      BY DEF ProviderListings
    <3> QED
      BY <1>1, <3>1
  <2>3. P[c] = IF q = from THEN old ELSE 0
    BY DEF ProviderListings
  <2> HIDE DEF P
  <2>4. \A x \in RegClients : P[x] \in Int /\ F[x] \in Int /\ P[x] <= F[x]
    BY <2>2
  <2>5. SumFunctionOnSet(P, RegClients) <= SumFunctionOnSet(F, RegClients)
    BY <1>4, <2>4, SumGrows
  <2>6. P[c] <= SumFunctionOnSet(P, RegClients) /\ SumFunctionOnSet(P, RegClients) \in Nat
    BY <1>4, <2>2, SumOfNaturals
  <2>7. CASE q = from
    BY <1>3, <2>1, <2>3, <2>5, <2>6, <2>7
  <2>8. CASE q # from
    <3>1. \A x \in RegClients : P[x] \in Int /\ G[x] \in Int
      BY <1>5, <2>2
    <3>2. \A x \in RegClients \ {c} : P[x] = G[x]
      OBVIOUS
    <3>3. G[c] = old
      OBVIOUS
    <3>4. \A x \in RegClients : G[x] \in Int /\ F[x] \in Int /\ G[x] <= F[x]
      BY <1>5, <2>2
    <3> HIDE DEF G
    <3>5. SumFunctionOnSet(G, RegClients) = SumFunctionOnSet(P, RegClients) - P[c] + G[c]
      BY <1>4, <3>1, <3>2, SumChanges
    <3>6. SumFunctionOnSet(G, RegClients) <= SumFunctionOnSet(F, RegClients)
      BY <1>4, <3>4, SumGrows
    <3> QED
      BY <1>3, <1>5, <2>1, <2>3, <2>6, <2>8, <3>3, <3>5, <3>6
  <2> QED
    BY <2>7, <2>8
<1> QED
  BY <1>2, <1>5, <1>6, <1>7 DEF Carries

\* What a client lists goes from one function to another, and so do the sums.
LEMMA ListingsChange ==
    ASSUME RegistryInv, NEW c \in RegClients, NEW listed \in [RegModels -> Nat], NEW to \in RegProviders,
           clientModels' = [clientModels EXCEPT ![c] = listed], clientProviders' = [clientProviders EXCEPT ![c] = to],
           models' = [m \in RegModels |-> models'[m]],
           \A m \in RegModels :
               Changes(models[m], c, clientModels[c][m], listed[m], clientProviders[c], to, models'[m])
    PROVE  RegistryInv'
<1>1. RegistryTypes'
  BY DEF RegistryInv, RegistryTypes, Changes
<1>2. IsFiniteSet(RegClients)
  BY RegistryAssumption
<1>3. ASSUME NEW x \in RegClients, NEW m \in RegModels
      PROVE  /\ clientModels[x][m] \in Nat /\ clientModels'[x][m] \in Nat
             /\ clientModels'[x][m] = (IF x = c THEN listed[m] ELSE clientModels[x][m])
             /\ clientProviders'[x] = (IF x = c THEN to ELSE clientProviders[x])
  BY DEF RegistryInv, RegistryTypes
<1>4. ASSUME NEW m \in RegModels
      PROVE  /\ models'[m].count = SumFunctionOnSet(Listings(clientModels', m), RegClients)
             /\ \A p \in RegProviders \ {NoProvider} :
                   models'[m].providers[p] =
                       SumFunctionOnSet(ProviderListings(clientModels', clientProviders', m, p), RegClients)
  <2>0. Changes(models[m], c, clientModels[c][m], listed[m], clientProviders[c], to, models'[m])
    OBVIOUS
  <2>1. models'[m].count = SumFunctionOnSet(Listings(clientModels', m), RegClients)
    <3> DEFINE F == Listings(clientModels, m)
               G == Listings(clientModels', m)
    <3>1. \A x \in RegClients : F[x] \in Int /\ G[x] \in Int
      BY <1>3 DEF Listings
    <3>2. (\A x \in RegClients \ {c} : F[x] = G[x]) /\ F[c] = clientModels[c][m] /\ G[c] = listed[m]
      BY <1>3 DEF Listings
    <3>3. models[m].count = SumFunctionOnSet(F, RegClients)
      BY CountsAsSums DEF RegistryInv, CountsAreSums
    <3> HIDE DEF F, G
    <3>4. SumFunctionOnSet(G, RegClients) = SumFunctionOnSet(F, RegClients) - F[c] + G[c]
      BY <1>2, <3>1, <3>2, SumChanges
    <3>5. models'[m].count = models[m].count - clientModels[c][m] + listed[m]
      BY <2>0 DEF Changes
    <3> QED
      BY <3>2, <3>3, <3>4, <3>5 DEF G
  <2>2. ASSUME NEW p \in RegProviders \ {NoProvider}
        PROVE  models'[m].providers[p] =
                   SumFunctionOnSet(ProviderListings(clientModels', clientProviders', m, p), RegClients)
    <3> DEFINE F == ProviderListings(clientModels, clientProviders, m, p)
               G == ProviderListings(clientModels', clientProviders', m, p)
               old == IF p = clientProviders[c] THEN clientModels[c][m] ELSE 0
               new == IF p = to THEN listed[m] ELSE 0
    <3>1. \A x \in RegClients : F[x] \in Int /\ G[x] \in Int
      BY <1>3 DEF ProviderListings
    <3>2. (\A x \in RegClients \ {c} : F[x] = G[x]) /\ F[c] = old /\ G[c] = new
      BY <1>3 DEF ProviderListings
    <3>3. models[m].providers[p] = SumFunctionOnSet(F, RegClients)
      BY CountsAsSums DEF RegistryInv, CountsAreSums
    <3>4. models'[m].providers[p] = models[m].providers[p] - old + new
      BY <2>0 DEF Changes
    <3> HIDE DEF F, G, old, new
    <3>5. SumFunctionOnSet(G, RegClients) = SumFunctionOnSet(F, RegClients) - F[c] + G[c]
      BY <1>2, <3>1, <3>2, SumChanges
    <3> QED
      BY <3>2, <3>3, <3>4, <3>5 DEF G
  <2> QED
    BY <2>1, <2>2
<1>5. CountsMatchListings'
  BY <1>4, CountsAsSums DEF CountsAreSums
<1>6. ASSUME NEW m \in RegModels
      PROVE  /\ MarksAreSingle(models'[m])
             /\ \A k \in models'[m].quota \cup models'[m].suspended : clientModels'[k.client][m] > 0
  <2>1. FewerMarks(models[m], models'[m]) /\ (clientModels[c][m] > 0 => NoMarksOf(models'[m], c))
    BY DEF Changes
  <2>2. MarksAreSingle(models'[m])
    BY <2>1 DEF FewerMarks, MarksAreSingle, RegistryInv
  <2>3. ASSUME NEW k \in models'[m].quota \cup models'[m].suspended
        PROVE  clientModels'[k.client][m] > 0
    <3>1. k \in models[m].quota \cup models[m].suspended
      BY <2>1 DEF FewerMarks
    <3>2. clientModels[k.client][m] > 0
      BY <3>1 DEF RegistryInv, MarksAreListed
    <3>3. k.client \in RegClients
      BY <3>1 DEF RegistryInv, RegistryTypes, Registrations, QuotaMarks, SuspensionMarks
    <3>4. k.client # c
      BY <2>1, <3>2 DEF NoMarksOf
    <3> QED
      BY <1>3, <3>2, <3>3, <3>4
  <2> QED
    BY <2>2, <2>3
<1> QED
  BY <1>1, <1>5, <1>6 DEF RegistryInv, MarksAreListed

LEMMA RegistryInitInv == RegistryInit => RegistryInv
<1> SUFFICES ASSUME RegistryInit PROVE RegistryInv
  OBVIOUS
<1>1. NoRegistration \in Registrations /\ MarksAreSingle(NoRegistration) /\ NotListed \in [RegModels -> Nat]
  BY DEF NoRegistration, Registrations, MarksAreSingle, NotListed
<1>2. RegistryTypes
  BY <1>1, RegistryAssumption DEF RegistryInit, RegistryTypes
<1>3. ASSUME NEW m \in RegModels
      PROVE  /\ models[m].count = SumFunctionOnSet(Listings(clientModels, m), RegClients)
             /\ \A p \in RegProviders \ {NoProvider} :
                   models[m].providers[p] =
                       SumFunctionOnSet(ProviderListings(clientModels, clientProviders, m, p), RegClients)
  <2>1. \A c \in RegClients : clientModels[c][m] = 0
    BY DEF RegistryInit, NotListed
  <2>2. models[m].count = 0 /\ \A p \in RegProviders : models[m].providers[p] = 0
    BY DEF RegistryInit, NoRegistration
  <2>3. SumFunctionOnSet(Listings(clientModels, m), RegClients) = 0
    <3> DEFINE F == Listings(clientModels, m)
    <3>1. \A c \in RegClients : F[c] = 0
      BY <2>1 DEF Listings
    <3> HIDE DEF F
    <3>2. SumFunctionOnSet(F, RegClients) = 0
      BY <3>1, RegistryAssumption, SumOfZeros
    <3> QED
      BY <3>2 DEF F
  <2>4. ASSUME NEW p \in RegProviders
        PROVE  SumFunctionOnSet(ProviderListings(clientModels, clientProviders, m, p), RegClients) = 0
    <3> DEFINE F == ProviderListings(clientModels, clientProviders, m, p)
    <3>1. \A c \in RegClients : F[c] = 0
      BY <2>1 DEF ProviderListings
    <3> HIDE DEF F
    <3>2. SumFunctionOnSet(F, RegClients) = 0
      BY <3>1, RegistryAssumption, SumOfZeros
    <3> QED
      BY <3>2 DEF F
  <2> QED
    BY <2>2, <2>3, <2>4
<1>4. CountsMatchListings
  BY <1>3, CountsAsSums DEF CountsAreSums
<1>5. \A m \in RegModels : models[m] = NoRegistration
  BY DEF RegistryInit
<1>6. MarksAreListed
  <2>1. NoRegistration.quota = {} /\ NoRegistration.suspended = {}
    BY DEF NoRegistration
  <2> QED
    BY <1>5, <2>1 DEF MarksAreListed
<1>7. \A m \in RegModels : MarksAreSingle(models[m])
  BY <1>1, <1>5
<1> QED
  BY <1>2, <1>4, <1>6, <1>7 DEF RegistryInv

LEMMA RegisterClientInv ==
    ASSUME RegistryInv, NEW c \in RegClients, NEW listed \in [RegModels -> 0 .. MaxListed], NEW p \in RegProviders,
           RegisterClient(c, listed, p)
    PROVE  RegistryInv'
<1>1. listed \in [RegModels -> Nat]
  BY RegistryAssumption
<1>2. ASSUME NEW m \in RegModels
      PROVE  Changes(models[m], c, clientModels[c][m], listed[m], clientProviders[c], p, models'[m])
  <2>1. /\ clientModels[c][m] \in Nat /\ clientProviders[c] \in RegProviders /\ listed[m] \in Nat
        /\ Carries(models[m], clientModels[c][m], clientProviders[c])
    BY <1>1, CarriesEach
  <2>2. CASE clientModels[c] = NotListed
    <3> DEFINE r == models[m]
               k == listed[m]
               after == models'[m]
    <3>1. after = WithAdded(r, p, k)
      BY <2>2 DEF RegisterClient
    <3>2. clientModels[c][m] = 0
      BY <2>2 DEF NotListed
    <3>3. r \in Registrations /\ k \in Nat
      BY <2>1 DEF Carries
    <3>4. r.count \in Nat /\ \A q \in RegProviders : r.providers[q] \in Nat
      BY <3>3 DEF Registrations
    <3> HIDE DEF r, k, after
    <3>5. Adds(r, p, k, after)
      BY <3>1, <3>3, WithAddedIs
    <3>6. Changes(r, c, 0, k, clientProviders[c], p, after)
      BY <3>3, <3>4, <3>5 DEF Adds, Changes, FewerMarks
    <3> QED
      BY <3>2, <3>6 DEF r, k, after
  <2>3. CASE clientModels[c] # NotListed
    <3>1. models'[m] = Reconciled(models[m], c, clientModels[c][m], listed[m], clientProviders[c], p)
      BY <2>3 DEF RegisterClient
    <3> QED
      BY <2>1, <3>1, ReconciledIs
  <2> QED
    BY <2>2, <2>3
<1>3. /\ clientModels' = [clientModels EXCEPT ![c] = listed] /\ clientProviders' = [clientProviders EXCEPT ![c] = p]
      /\ models' = [m \in RegModels |-> models'[m]]
  BY DEF RegisterClient
<1> QED
  BY <1>1, <1>2, <1>3, ListingsChange

LEMMA UnregisterClientInv ==
    ASSUME RegistryInv, NEW c \in RegClients, UnregisterClient(c)
    PROVE  RegistryInv'
<1>1. NotListed \in [RegModels -> Nat] /\ NoProvider \in RegProviders
  BY RegistryAssumption DEF NotListed
<1>2. ASSUME NEW m \in RegModels
      PROVE  Changes(models[m], c, clientModels[c][m], NotListed[m], clientProviders[c], NoProvider, models'[m])
  <2>1. /\ clientModels[c][m] \in Nat /\ clientProviders[c] \in RegProviders
        /\ Carries(models[m], clientModels[c][m], clientProviders[c])
    BY CarriesEach
  <2>2. models'[m] = WithRemoved(models[m], c, clientProviders[c], clientModels[c][m]) /\ NotListed[m] = 0
    BY DEF UnregisterClient, Unregistered, NotListed
  <2> QED
    BY <2>1, <2>2, WithoutListings
<1>3. /\ clientModels' = [clientModels EXCEPT ![c] = NotListed]
      /\ clientProviders' = [clientProviders EXCEPT ![c] = NoProvider]
      /\ models' = [m \in RegModels |-> models'[m]]
  BY DEF UnregisterClient
<1> QED
  BY <1>1, <1>2, <1>3, ListingsChange

\* A call that leaves the listings alone changes marks only.
LEMMA MarksChange ==
    ASSUME RegistryInv, UNCHANGED <<clientModels, clientProviders>>, NEW m \in RegModels,
           NEW after \in Registrations, models' = [models EXCEPT ![m] = after],
           after.count = models[m].count, after.providers = models[m].providers,
           MarksAreSingle(after), \A k \in after.quota \cup after.suspended : clientModels[k.client][m] > 0
    PROVE  RegistryInv'
<1>1. \A n \in RegModels : models'[n] = IF n = m THEN after ELSE models[n]
  BY DEF RegistryInv, RegistryTypes
<1>2. RegistryTypes'
  BY DEF RegistryInv, RegistryTypes
<1>3. CountsMatchListings'
  BY <1>1, CountsAsSums DEF RegistryInv, CountsAreSums
<1> QED
  BY <1>1, <1>2, <1>3 DEF RegistryInv, MarksAreListed

LEMMA ReconcileModelStateInv ==
    ASSUME RegistryInv, NEW c \in RegClients, NEW m \in RegModels, NEW state \in {"free", "cooldown", "blocked"},
           ReconcileModelState(c, m, state)
    PROVE  RegistryInv'
<1> DEFINE r == models[m]
           cleared == Unmarked(r, c)
           cooling == [client |-> c, recent |-> TRUE]
           paused == [client |-> c, reason |-> "quota"]
           blocked == [client |-> c, reason |-> "other"]
           onCooldown == [cleared EXCEPT !.quota = cleared.quota \cup {cooling}, !.suspended = cleared.suspended \cup {paused}]
           onBlock == [cleared EXCEPT !.suspended = cleared.suspended \cup {blocked}]
<1>1. r \in Registrations /\ MarksAreSingle(r)
      /\ (\A k \in r.quota \cup r.suspended : clientModels[k.client][m] > 0) /\ clientModels[c][m] > 0
  BY DEF RegistryInv, RegistryTypes, MarksAreListed, ReconcileModelState, Supports
<1>2. models' = [models EXCEPT ![m] = IF state = "free" THEN cleared ELSE IF state = "cooldown" THEN onCooldown ELSE onBlock]
  BY DEF ReconcileModelState
<1>3. UNCHANGED <<clientModels, clientProviders>>
  BY DEF ReconcileModelState
<1> HIDE DEF r
<1>4. /\ cleared \in Registrations /\ cleared.count = r.count /\ cleared.providers = r.providers
      /\ FewerMarks(r, cleared) /\ NoMarksOf(cleared, c)
  BY <1>1, UnmarkedIs
<1> HIDE DEF cleared
<1>5. MarksAreSingle(cleared) /\ \A k \in cleared.quota \cup cleared.suspended : clientModels[k.client][m] > 0
  BY <1>1, <1>4 DEF FewerMarks, MarksAreSingle
<1>6. CASE state = "free"
  BY <1>2, <1>3, <1>4, <1>5, <1>6, MarksChange DEF r
<1>7. CASE state = "cooldown"
  <2>1. cooling \in QuotaMarks /\ cooling.client = c /\ paused \in SuspensionMarks /\ paused.client = c /\ paused.reason = "quota"
    BY DEF QuotaMarks, SuspensionMarks
  <2> HIDE DEF cooling, paused
  <2>2. /\ onCooldown \in Registrations /\ onCooldown.count = r.count /\ onCooldown.providers = r.providers
        /\ onCooldown.quota = cleared.quota \cup {cooling} /\ onCooldown.suspended = cleared.suspended \cup {paused}
    BY <1>4, <2>1 DEF Registrations
  <2> HIDE DEF onCooldown
  <2>3. MarksAreSingle(onCooldown)
    BY <1>4, <1>5, <2>1, <2>2 DEF MarksAreSingle, NoMarksOf
  <2>4. \A k \in onCooldown.quota \cup onCooldown.suspended : clientModels[k.client][m] > 0
    BY <1>1, <1>5, <2>1, <2>2
  <2>5. models' = [models EXCEPT ![m] = onCooldown]
    BY <1>2, <1>7
  <2> QED
    BY <1>3, <2>2, <2>3, <2>4, <2>5, MarksChange DEF r
<1>8. CASE state = "blocked"
  <2>1. blocked \in SuspensionMarks /\ blocked.client = c
    BY DEF SuspensionMarks
  <2> HIDE DEF blocked
  <2>2. /\ onBlock \in Registrations /\ onBlock.count = r.count /\ onBlock.providers = r.providers
        /\ onBlock.quota = cleared.quota /\ onBlock.suspended = cleared.suspended \cup {blocked}
    BY <1>4, <2>1 DEF Registrations
  <2> HIDE DEF onBlock
  <2>3. MarksAreSingle(onBlock)
    BY <1>4, <1>5, <2>1, <2>2 DEF MarksAreSingle, NoMarksOf
  <2>4. \A k \in onBlock.quota \cup onBlock.suspended : clientModels[k.client][m] > 0
    BY <1>1, <1>5, <2>1, <2>2
  <2>5. models' = [models EXCEPT ![m] = onBlock]
    BY <1>2, <1>8
  <2> QED
    BY <1>3, <2>2, <2>3, <2>4, <2>5, MarksChange DEF r
<1> QED
  BY <1>6, <1>7, <1>8

LEMMA QuotaWindowPassesInv ==
    ASSUME RegistryInv, NEW m \in RegModels, QuotaWindowPasses(m)
    PROVE  RegistryInv'
<1> DEFINE r == models[m]
<1>1. PICK k \in r.quota : k.recent /\ models' = [models EXCEPT ![m].quota = (@ \ {k}) \union {[k EXCEPT !.recent = FALSE]}]
  BY DEF QuotaWindowPasses
<1>2. r \in Registrations /\ MarksAreSingle(r) /\ \A l \in r.quota \cup r.suspended : clientModels[l.client][m] > 0
  BY DEF RegistryInv, RegistryTypes, MarksAreListed
<1> DEFINE old == [k EXCEPT !.recent = FALSE]
           after == [r EXCEPT !.quota = (r.quota \ {k}) \cup {old}]
<1>3. old \in QuotaMarks /\ old.client = k.client
  BY <1>2 DEF Registrations, QuotaMarks
<1>4. models' = [models EXCEPT ![m] = after]
  BY <1>1
<1>5. UNCHANGED <<clientModels, clientProviders>>
  BY DEF QuotaWindowPasses
<1> HIDE DEF old, r
<1>6. after \in Registrations /\ after.count = r.count /\ after.providers = r.providers
      /\ after.quota = (r.quota \ {k}) \cup {old} /\ after.suspended = r.suspended
  BY <1>2, <1>3 DEF Registrations
<1> HIDE DEF after
<1>7. MarksAreSingle(after) /\ \A l \in after.quota \cup after.suspended : clientModels[l.client][m] > 0
  BY <1>2, <1>3, <1>6 DEF MarksAreSingle
<1> QED
  BY <1>4, <1>5, <1>6, <1>7, MarksChange DEF r

LEMMA RegistryNextInv == RegistryInv /\ [RegistryNext]_registryVars => RegistryInv'
<1> SUFFICES ASSUME RegistryInv, [RegistryNext]_registryVars PROVE RegistryInv'
  OBVIOUS
<1>1. CASE RegistryNext
  BY <1>1, RegisterClientInv, UnregisterClientInv, ReconcileModelStateInv, QuotaWindowPassesInv DEF RegistryNext
<1>2. CASE UNCHANGED registryVars
  <2>1. UNCHANGED <<clientModels, clientProviders, models>>
    BY <1>2 DEF registryVars
  <2> QED
    BY <2>1, CountsAsSums DEF RegistryInv, RegistryTypes, CountsAreSums, MarksAreListed, MarksAreSingle
<1> QED
  BY <1>1, <1>2

\* As many clients are marked as there are marks, and each of them lists the model beside
\* the one that can serve it.
LEMMA ServableListed ==
    ASSUME RegistryInv, NEW m \in RegModels, NEW c \in RegClients, clientModels[c][m] > 0, NoMarksOf(models[m], c)
    PROVE  Available(models[m])
<1> DEFINE r == models[m]
           Cooling == {k \in r.quota : k.recent}
           Other == {k \in r.suspended : k.reason = "other"}
           coolingClients == {k.client : k \in Cooling}
           otherClients == {k.client : k \in Other}
           F == Listings(clientModels, m)
<1>1. r \in Registrations /\ MarksAreSingle(r) /\ \A k \in r.quota \cup r.suspended : clientModels[k.client][m] > 0
  BY DEF RegistryInv, RegistryTypes, MarksAreListed
<1>2. IsFiniteSet(RegClients)
  BY RegistryAssumption
<1>3. coolingClients \subseteq RegClients \ {c} /\ otherClients \subseteq RegClients \ {c}
      /\ coolingClients \cap otherClients = {}
  BY <1>1 DEF NoMarksOf, MarksAreSingle, Registrations, QuotaMarks, SuspensionMarks
<1>4. Cardinality(Cooling) = Cardinality(coolingClients)
  <2> DEFINE mark == [x \in coolingClients |-> CHOOSE k \in Cooling : k.client = x]
  <2>1. ASSUME NEW x \in coolingClients PROVE mark[x] \in Cooling /\ mark[x].client = x
    OBVIOUS
  <2>2. mark \in Injection(coolingClients, Cooling)
    BY <2>1 DEF Injection, IsInjective
  <2>3. \A k \in Cooling : k.client \in coolingClients /\ mark[k.client] = k
    BY <1>1, <2>1 DEF MarksAreSingle
  <2>4. mark \in Surjection(coolingClients, Cooling)
    BY <2>1, <2>3 DEF Surjection
  <2>5. ExistsBijection(coolingClients, Cooling)
    BY <2>2, <2>4 DEF ExistsBijection, Bijection
  <2>6. IsFiniteSet(coolingClients)
    BY <1>2, <1>3, FS_Subset
  <2> HIDE DEF coolingClients, Cooling
  <2> QED
    BY <2>5, <2>6, FS_Bijection
<1>5. Cardinality(Other) = Cardinality(otherClients)
  <2> DEFINE mark == [x \in otherClients |-> CHOOSE k \in Other : k.client = x]
  <2>1. ASSUME NEW x \in otherClients PROVE mark[x] \in Other /\ mark[x].client = x
    OBVIOUS
  <2>2. mark \in Injection(otherClients, Other)
    BY <2>1 DEF Injection, IsInjective
  <2>3. \A k \in Other : k.client \in otherClients /\ mark[k.client] = k
    BY <1>1, <2>1 DEF MarksAreSingle
  <2>4. mark \in Surjection(otherClients, Other)
    BY <2>1, <2>3 DEF Surjection
  <2>5. ExistsBijection(otherClients, Other)
    BY <2>2, <2>4 DEF ExistsBijection, Bijection
  <2>6. IsFiniteSet(otherClients)
    BY <1>2, <1>3, FS_Subset
  <2> HIDE DEF otherClients, Other
  <2> QED
    BY <2>5, <2>6, FS_Bijection
<1>6. \A x \in RegClients : F[x] \in Nat
  BY DEF Listings, RegistryInv, RegistryTypes
<1>7. \A x \in coolingClients \cup otherClients \cup {c} : F[x] >= 1
  <2>1. \A x \in RegClients : F[x] = clientModels[x][m] /\ clientModels[x][m] \in Nat
    BY DEF Listings, RegistryInv, RegistryTypes
  <2>2. \A x \in coolingClients \cup otherClients \cup {c} : x \in RegClients /\ clientModels[x][m] > 0
    BY <1>1, <1>3
  <2> QED
    BY <2>1, <2>2
<1>8. r.count = SumFunctionOnSet(F, RegClients)
  BY CountsAsSums DEF RegistryInv, CountsAreSums
<1> HIDE DEF coolingClients, otherClients, F
<1> DEFINE T == coolingClients \cup otherClients
<1>9. IsFiniteSet(coolingClients) /\ IsFiniteSet(otherClients)
  BY <1>2, <1>3, FS_Subset
<1>10. IsFiniteSet(T) /\ Cardinality(T) = Cardinality(coolingClients) + Cardinality(otherClients)
  <2>1. coolingClients \cap otherClients = {} /\ Cardinality({}) = 0
    BY <1>3, FS_EmptySet
  <2>2. Cardinality(coolingClients) \in Nat /\ Cardinality(otherClients) \in Nat
    BY <1>9, FS_CardinalityType
  <2> QED
    <3>1. IsFiniteSet(T) /\ Cardinality(T) = Cardinality(coolingClients) + Cardinality(otherClients)
                                               - Cardinality(coolingClients \cap otherClients)
      BY <1>9, FS_Union
    <3>2. Cardinality(coolingClients \cap otherClients) = 0
      BY <2>1
    <3> HIDE DEF T
    <3> QED
      BY <2>2, <3>1, <3>2
<1>11. Cardinality(T \cup {c}) = Cardinality(T) + 1
  <2>1. c \notin T
    BY <1>3
  <2> HIDE DEF T
  <2> QED
    BY <1>10, <2>1, FS_AddElement
<1>12. Cardinality(T \cup {c}) <= SumFunctionOnSet(F, RegClients)
  <2>1. T \cup {c} \in SUBSET RegClients /\ \A x \in T \cup {c} : F[x] >= 1
    BY <1>3, <1>7
  <2> HIDE DEF T
  <2> QED
    BY <1>2, <1>6, <2>1, SumCounts
<1>13. Cardinality(coolingClients) \in Nat /\ Cardinality(otherClients) \in Nat /\ r.count \in Nat
  BY <1>1, <1>9, FS_CardinalityType DEF Registrations
<1>14. r.count - Cardinality(Cooling) - Cardinality(Other) > 0
  BY <1>4, <1>5, <1>8, <1>10, <1>11, <1>12, <1>13
<1> QED
  BY <1>14 DEF Available

\* What the registry offers is what the credentials have registered: whatever they registered
\* before, in any order, with repetitions and changes of provider, counts are those of the
\* listings and no mark of one hides what another can serve (ModelRegistry.registerClient).
THEOREM RegistryStaysConsistent == RegistrySpec => []RegistryConsistent
<1>1. RegistryInv => RegistryConsistent
  BY ServableListed DEF RegistryConsistent, RegistryInv, ServableIsListed, NoMarksOf
<1> QED
  BY <1>1, RegistryInitInv, RegistryNextInv, PTL DEF RegistrySpec

-------------------------------------------------------------------------------
(***************************************************************************)
(* The schedule of refreshes.  A credential that is to be refreshed is     *)
(* scheduled in time, or the loop is still to deal with it: it is marked   *)
(* or about to be, or the loop holds it in its hands.                      *)
(***************************************************************************)
AutoSpec == AutoInit /\ [][AutoNext]_autoVars

Instants == 0 .. Never
Entries == [next : Instants, version : Nat]
LoopPlaces == {"published", "arm", "rest", "drain", "due", "pending", "reread", "store", "send", "dirty", "reschedule"}
LoopRecords ==
    [at : LoopPlaces, now : Nat, todo : SUBSET Credentials, id : Credentials \cup {"none"}, next : Instants,
     version : Nat, job : BOOLEAN, lasted : Nat]
RebuildRecords == [at : {"rebuild"}, entries : [Credentials -> [next : Instants, version : {0}]]]

AutoTypes ==
    /\ table \in [Credentials -> [due : Instants, version : Nat]]
    /\ lockedBy \in [Credentials -> {"none", "mark", "wake", "unschedule"}]
    /\ schedule \in [Credentials -> Entries]
    /\ dirty \in SUBSET Credentials /\ wake \in BOOLEAN
    /\ Credentials # {} => timer \in Nat
    /\ jobs \in Seq(Credentials)
    /\ loop \in LoopRecords \cup RebuildRecords
    /\ refreshWorker \in [RefreshWorkers -> [at : {"rest", "refresh", "wake"}, id : Credentials \cup {"none"}]]
    /\ clock \in 0 .. MaxClock /\ changes \in [Credentials -> Nat]

WithCredential == {"pending", "reread", "store", "send", "reschedule"}
LoopShape ==
    loop.at # "rebuild" =>
        /\ loop.now <= clock
        /\ loop.at \in WithCredential => loop.id \in Credentials
        /\ loop.at \in {"published", "arm", "rest", "drain"} => loop.todo = {}

TableShape ==
    /\ \A id \in Credentials :
          /\ table[id].version = 0 => table[id].due = Never
          /\ lockedBy[id] = "unschedule" => table[id].due = Never
          /\ schedule[id].next = Never => schedule[id].version = 0
    /\ \A w \in RefreshWorkers : refreshWorker[w].at = "refresh" => refreshWorker[w].id \in Credentials

\* An instant at which the loop would not be late for id.
InTime(id, instant) == instant # Never /\ (instant <= table[id].due \/ instant <= clock)
Wanted(id) == table[id].due # Never
Marked(id) == lockedBy[id] = "mark" \/ id \in dirty

\* What the loop has read of the table is still so, or it will be told.
ReadsAreCurrent ==
    /\ loop.at = "rebuild" =>
         \A id \in Credentials : Wanted(id) => InTime(id, loop.entries[id].next) \/ Marked(id)
    /\ loop.at \in {"store", "reschedule"} /\ Wanted(loop.id) =>
         \/ InTime(loop.id, loop.next) /\ (loop.at = "reschedule" => loop.version = table[loop.id].version)
         \/ Marked(loop.id)

BeforeDraining == {"drain", "due", "pending", "reread", "store", "send"}
MarksAreSeen == \A id \in dirty : wake \/ lockedBy[id] = "wake" \/ loop.at \in BeforeDraining

OnSchedule(id) ==
    \/ InTime(id, schedule[id].next)
    \/ schedule[id].next # Never /\ Committed(schedule[id], table[id].version)
InHand(id) ==
    \/ loop.at \in {"published", "rebuild"}
    \/ loop.at # "rebuild" /\ id \in loop.todo
    \/ loop.at \in {"pending", "reread", "store", "reschedule"} /\ loop.id = id
NobodyForgotten == \A id \in Credentials : Wanted(id) => OnSchedule(id) \/ Marked(id) \/ InHand(id)

\* While the loop rests its timer covers the schedule, or it will be woken.
TimerCovers ==
    loop.at = "rest" =>
        \/ wake \/ \E w \in RefreshWorkers : refreshWorker[w].at = "wake"
        \/ \A id \in Credentials : schedule[id].next # Never =>
              timer <= schedule[id].next + loop.lasted \/ timer <= clock + loop.lasted

AutoInv ==
    AutoTypes /\ LoopShape /\ TableShape /\ ReadsAreCurrent /\ MarksAreSeen /\ NobodyForgotten /\ TimerCovers

LEMMA MaxOfTwo ==
    ASSUME NEW a \in Int, NEW b \in Int
    PROVE  Max({a, b}) = IF a > b THEN a ELSE b
<1>1. CASE a > b
  <2>1. a \in {a, b} /\ \A y \in {a, b} : a >= y
    BY <1>1
  <2>2. \A x \in {a, b} : (\A y \in {a, b} : x >= y) => x = a
    BY <1>1
  <2> QED
    BY <1>1, <2>1, <2>2 DEF Max
<1>2. CASE ~(a > b)
  <2>1. b \in {a, b} /\ \A y \in {a, b} : b >= y
    BY <1>2
  <2>2. \A x \in {a, b} : (\A y \in {a, b} : x >= y) => x = b
    BY <1>2
  <2> QED
    BY <1>2, <2>1, <2>2 DEF Max
<1> QED
  BY <1>1, <1>2

LEMMA NeverIsLast == Never \in Nat /\ MaxClock \in Nat /\ PendingBackoff \in Nat /\ Never = MaxClock + PendingBackoff + 1
  BY AutoRefreshAssumption DEF Never

\* The next check of a credential that is wanted comes in time, whatever the round's instant.
LEMMA NextCheckInTime ==
    ASSUME AutoTypes, NEW id \in Credentials, NEW now \in 0 .. clock
    PROVE  /\ NextCheck(id, now) \in Instants
           /\ Wanted(id) => InTime(id, NextCheck(id, now))
           /\ ~Wanted(id) => NextCheck(id, now) = Never
<1>1. table[id].due \in Instants /\ now \in Nat /\ now <= clock /\ clock \in Nat /\ clock < Never
  BY NeverIsLast DEF AutoTypes
<1>2. CASE ~Wanted(id)
  BY <1>2, NeverIsLast DEF Wanted, NextCheck, Instants
<1>3. CASE Wanted(id)
  <2>1. NextCheck(id, now) = Max({table[id].due, now})
    BY <1>3 DEF Wanted, NextCheck
  <2> DEFINE due == table[id].due
  <2>2. due \in Int /\ now \in Int /\ due # Never /\ due <= Never /\ due >= 0
    BY <1>1, <1>3, NeverIsLast DEF Wanted, Instants
  <2> HIDE DEF due
  <2>3. Max({due, now}) = IF due > now THEN due ELSE now
    BY <2>2, MaxOfTwo
  <2>4. Max({due, now}) \in Instants /\ Max({due, now}) # Never /\ (Max({due, now}) <= due \/ Max({due, now}) <= clock)
    BY <1>1, <2>2, <2>3, NeverIsLast DEF Instants
  <2> QED
    BY <1>3, <2>1, <2>4 DEF InTime, due
<1> QED
  BY <1>2, <1>3

LEMMA LoopRecordIs ==
    ASSUME AutoTypes
    PROVE  IF loop.at = "rebuild" THEN loop \in RebuildRecords ELSE loop \in LoopRecords
  BY DEF AutoTypes, LoopRecords, RebuildRecords, LoopPlaces

LEMMA RestingIs ==
    ASSUME NEW place \in LoopPlaces, NEW now \in Nat, NEW todo \in SUBSET Credentials
    PROVE  [at |-> place, now |-> now, todo |-> todo, id |-> "none", next |-> Never, version |-> 0, job |-> FALSE,
            lasted |-> 0] \in LoopRecords
  BY NeverIsLast DEF LoopRecords, Instants

\* What the loop has read stays current while it does not move and the table is not changed unmarked.
LEMMA ReadsKept ==
    ASSUME AutoTypes, ReadsAreCurrent, LoopShape, loop' = loop,
           \A x \in Credentials : Wanted(x)' =>
              \/ Marked(x)'
              \/ /\ Wanted(x) /\ (Marked(x) => Marked(x)')
                 /\ table'[x].version = table[x].version
                 /\ \A instant \in Instants : InTime(x, instant) => instant <= table'[x].due \/ instant <= clock'
    PROVE  ReadsAreCurrent'
<1>1. ASSUME loop.at = "rebuild", NEW x \in Credentials, Wanted(x)'
      PROVE  InTime(x, loop.entries[x].next)' \/ Marked(x)'
  <2>1. Wanted(x) => InTime(x, loop.entries[x].next) \/ Marked(x)
    BY <1>1 DEF ReadsAreCurrent
  <2>2. loop'.entries[x].next = loop.entries[x].next /\ loop.entries[x].next \in Instants
    BY <1>1, LoopRecordIs DEF RebuildRecords
  <2>3. InTime(x, loop.entries[x].next) =>
          \/ loop.entries[x].next # Never /\ (loop.entries[x].next <= table'[x].due \/ loop.entries[x].next <= clock')
          \/ Marked(x)'
    BY <1>1, <2>2 DEF InTime
  <2>4. Marked(x)' \/ InTime(x, loop.entries[x].next) \/ (Marked(x) /\ (Marked(x) => Marked(x)'))
    BY <1>1, <2>1
  <2> QED
    BY <2>2, <2>3, <2>4 DEF InTime
<1>2. ASSUME loop.at \in {"store", "reschedule"}, Wanted(loop.id)'
      PROVE  \/ InTime(loop.id, loop.next)' /\ (loop.at = "reschedule" => loop.version = table'[loop.id].version)
             \/ Marked(loop.id)'
  <2>1. loop.id \in Credentials
    BY <1>2 DEF LoopShape, WithCredential
  <2>2. loop'.id = loop.id /\ loop'.next = loop.next
    OBVIOUS
  <2>3. Wanted(loop.id) =>
          \/ InTime(loop.id, loop.next) /\ (loop.at = "reschedule" => loop.version = table[loop.id].version)
          \/ Marked(loop.id)
    BY <1>2 DEF ReadsAreCurrent
  <2> DEFINE x == loop.id
             i == loop.next
  <2>4. x' = x /\ i' = i /\ (Wanted(x)' <=> table'[x].due # Never') /\ (Marked(x)' <=> lockedBy'[x] = "mark" \/ x \in dirty')
        /\ (InTime(x, i)' <=> i # Never /\ (i <= table'[x].due \/ i <= clock'))
    BY DEF Wanted, Marked, InTime
  <2>5. \A y \in Credentials : table'[y].due # Never =>
              \/ lockedBy'[y] = "mark" \/ y \in dirty'
              \/ /\ Wanted(y) /\ (Marked(y) => lockedBy'[y] = "mark" \/ y \in dirty')
                 /\ table'[y].version = table[y].version
                 /\ \A instant \in Instants : InTime(y, instant) => instant <= table'[y].due \/ instant <= clock'
    BY DEF Wanted, Marked
  <2> HIDE DEF x, i
  <2>6. x \in Credentials /\ table'[x].due # Never /\ i \in Instants
    BY <1>2, <2>1, <2>4, LoopRecordIs DEF x, i, LoopRecords
  <2>7. \/ lockedBy'[x] = "mark" \/ x \in dirty'
        \/ /\ Wanted(x) /\ (Marked(x) => lockedBy'[x] = "mark" \/ x \in dirty')
           /\ table'[x].version = table[x].version
           /\ InTime(x, i) => i <= table'[x].due \/ i <= clock'
    BY <2>5, <2>6
  <2>8. InTime(x, i) => i # Never
    BY DEF InTime
  <2>9. Wanted(x) => (InTime(x, i) /\ (loop.at = "reschedule" => loop.version = table[x].version)) \/ Marked(x)
    BY <2>3 DEF x, i
  <2> QED
    BY <2>4, <2>7, <2>8, <2>9 DEF x, i
<1> QED
  BY <1>1, <1>2 DEF ReadsAreCurrent

LEMMA ChangeKeeps ==
    ASSUME AutoInv, NEW id \in Credentials, NEW due \in Instants, NEW version \in Nat, Change(id, due, version)
    PROVE  AutoInv'
<1> USE NeverIsLast DEF AutoInv, Instants
<1>1. AutoTypes'
  <2>1. table' \in [Credentials -> [due : Instants, version : Nat]]
    BY DEF Change, AutoTypes
  <2>2. changes' \in [Credentials -> Nat]
    BY DEF Change, AutoTypes
  <2>3. loop' \in LoopRecords \cup RebuildRecords
    BY DEF Change, AutoTypes
  <2>4. lockedBy' \in [Credentials -> {"none", "mark", "wake", "unschedule"}]
    BY DEF Change, AutoTypes
  <2> QED
    BY <2>1, <2>2, <2>3, <2>4 DEF Change, AutoTypes
<1>2. LoopShape'
  BY DEF Change, AutoTypes, LoopShape, LoopRecords, RebuildRecords, WithCredential
<1>3. TableShape'
  BY DEF Change, AutoTypes, TableShape, LoopShape
<1>4. ReadsAreCurrent'
  <2>1. \A x \in Credentials \ {id} : table'[x] = table[x] /\ lockedBy'[x] = lockedBy[x]
    BY DEF Change, AutoTypes
  <2>2. lockedBy'[id] = "mark"
    BY DEF Change, AutoTypes
  <2>3. loop' = loop /\ dirty' = dirty /\ clock' = clock
    BY DEF Change
  <2> QED
    BY <2>1, <2>2, <2>3, ReadsKept DEF Wanted, Marked, InTime
<1>5. MarksAreSeen'
  BY DEF Change, AutoTypes, LoopShape, MarksAreSeen, BeforeDraining, LoopRecords, RebuildRecords
<1>6. NobodyForgotten'
  BY DEF Change, AutoTypes, LoopShape, TableShape, ReadsAreCurrent, NobodyForgotten, OnSchedule, InHand, InTime, Wanted, Marked, Committed, LoopRecords, RebuildRecords, WithCredential
<1>7. TimerCovers'
  BY DEF Change, AutoTypes, LoopShape, TimerCovers, LoopRecords, RebuildRecords
<1> QED
  BY <1>1, <1>2, <1>3, <1>4, <1>5, <1>6, <1>7

LEMMA QueueRescheduleKeeps ==
    ASSUME AutoInv, NEW id \in Credentials, QueueReschedule(id)
    PROVE  AutoInv'
<1> USE NeverIsLast DEF AutoInv, Instants
<1>1. AutoTypes'
  <2>1. loop' \in LoopRecords \cup RebuildRecords
    BY DEF QueueReschedule, AutoTypes, LoopShape, LoopRecords, RebuildRecords, LoopPlaces, Entries
  <2> QED
    BY <2>1 DEF QueueReschedule, AutoTypes, Entries
<1>2. LoopShape'
  BY DEF QueueReschedule, AutoTypes, LoopShape, LoopRecords, RebuildRecords, WithCredential
<1>3. TableShape'
  BY DEF QueueReschedule, AutoTypes, TableShape, LoopShape
<1>4. ReadsAreCurrent'
  BY DEF QueueReschedule, AutoTypes, LoopShape, TableShape, ReadsAreCurrent, InTime, Wanted, Marked, LoopRecords, RebuildRecords
<1>5. MarksAreSeen'
  BY DEF QueueReschedule, AutoTypes, LoopShape, MarksAreSeen, BeforeDraining, LoopRecords, RebuildRecords
<1>6. NobodyForgotten'
  BY DEF QueueReschedule, AutoTypes, LoopShape, TableShape, ReadsAreCurrent, NobodyForgotten, OnSchedule, InHand, InTime, Wanted, Marked, Committed, LoopRecords, RebuildRecords, WithCredential
<1>7. TimerCovers'
  BY DEF QueueReschedule, AutoTypes, LoopShape, TimerCovers, LoopRecords, RebuildRecords
<1> QED
  BY <1>1, <1>2, <1>3, <1>4, <1>5, <1>6, <1>7

LEMMA WakeLoopKeeps ==
    ASSUME AutoInv, NEW id \in Credentials, WakeLoop(id)
    PROVE  AutoInv'
<1> USE NeverIsLast DEF AutoInv, Instants
<1>1. AutoTypes'
  <2>1. loop' \in LoopRecords \cup RebuildRecords
    BY DEF WakeLoop, AutoTypes, LoopShape, LoopRecords, RebuildRecords, LoopPlaces, Entries
  <2> QED
    BY <2>1 DEF WakeLoop, AutoTypes, Entries
<1>2. LoopShape'
  BY DEF WakeLoop, AutoTypes, LoopShape, LoopRecords, RebuildRecords, WithCredential
<1>3. TableShape'
  BY DEF WakeLoop, AutoTypes, TableShape, LoopShape
<1>4. ReadsAreCurrent'
  <2>1. \A x \in Credentials : table'[x] = table[x] /\ (lockedBy[x] = "mark" => lockedBy'[x] = "mark")
    BY DEF WakeLoop, AutoTypes
  <2>2. loop' = loop /\ dirty' = dirty /\ clock' = clock
    BY DEF WakeLoop
  <2> QED
    BY <2>1, <2>2, ReadsKept DEF Wanted, Marked, InTime
<1>5. MarksAreSeen'
  BY DEF WakeLoop, AutoTypes, LoopShape, MarksAreSeen, BeforeDraining, LoopRecords, RebuildRecords
<1>6. NobodyForgotten'
  BY DEF WakeLoop, AutoTypes, LoopShape, TableShape, ReadsAreCurrent, NobodyForgotten, OnSchedule, InHand, InTime, Wanted, Marked, Committed, LoopRecords, RebuildRecords, WithCredential
<1>7. TimerCovers'
  BY DEF WakeLoop, AutoTypes, LoopShape, TimerCovers, LoopRecords, RebuildRecords
<1> QED
  BY <1>1, <1>2, <1>3, <1>4, <1>5, <1>6, <1>7

LEMMA DeleteKeeps ==
    ASSUME AutoInv, NEW id \in Credentials, Delete(id)
    PROVE  AutoInv'
<1> USE NeverIsLast DEF AutoInv, Instants
<1>1. AutoTypes'
  <2>1. loop' \in LoopRecords \cup RebuildRecords
    BY DEF Delete, Gone, AutoTypes, LoopShape, LoopRecords, RebuildRecords, LoopPlaces, Entries
  <2> QED
    BY <2>1 DEF Delete, Gone, AutoTypes, Entries
<1>2. LoopShape'
  BY DEF Delete, Gone, AutoTypes, LoopShape, LoopRecords, RebuildRecords, WithCredential
<1>3. TableShape'
  BY DEF Delete, Gone, AutoTypes, TableShape, LoopShape
<1>4. ReadsAreCurrent'
  <2>1. \A x \in Credentials \ {id} : table'[x] = table[x] /\ lockedBy'[x] = lockedBy[x]
    BY DEF Delete, AutoTypes
  <2>2. table'[id].due = Never
    BY DEF Delete, AutoTypes, Gone
  <2>3. loop' = loop /\ dirty' = dirty /\ clock' = clock
    BY DEF Delete
  <2> QED
    BY <2>1, <2>2, <2>3, ReadsKept DEF Wanted, Marked, InTime
<1>5. MarksAreSeen'
  BY DEF Delete, Gone, AutoTypes, LoopShape, MarksAreSeen, BeforeDraining, LoopRecords, RebuildRecords
<1>6. NobodyForgotten'
  BY DEF Delete, Gone, AutoTypes, LoopShape, TableShape, ReadsAreCurrent, NobodyForgotten, OnSchedule, InHand, InTime, Wanted, Marked, Committed, LoopRecords, RebuildRecords, WithCredential
<1>7. TimerCovers'
  BY DEF Delete, Gone, AutoTypes, LoopShape, TimerCovers, LoopRecords, RebuildRecords
<1> QED
  BY <1>1, <1>2, <1>3, <1>4, <1>5, <1>6, <1>7

LEMMA UnscheduleKeeps ==
    ASSUME AutoInv, NEW id \in Credentials, Unschedule(id)
    PROVE  AutoInv'
<1> USE NeverIsLast DEF AutoInv, Instants
<1>1. AutoTypes'
  <2>1. loop' \in LoopRecords \cup RebuildRecords
    BY DEF Unschedule, Unscheduled, AutoTypes, LoopShape, LoopRecords, RebuildRecords, LoopPlaces, Entries
  <2> QED
    BY <2>1 DEF Unschedule, Unscheduled, AutoTypes, Entries
<1>2. LoopShape'
  BY DEF Unschedule, Unscheduled, AutoTypes, LoopShape, LoopRecords, RebuildRecords, WithCredential
<1>3. TableShape'
  BY DEF Unschedule, Unscheduled, AutoTypes, TableShape, LoopShape
<1>4. ReadsAreCurrent'
  BY DEF Unschedule, Unscheduled, AutoTypes, LoopShape, TableShape, ReadsAreCurrent, InTime, Wanted, Marked, LoopRecords, RebuildRecords
<1>5. MarksAreSeen'
  BY DEF Unschedule, Unscheduled, AutoTypes, LoopShape, MarksAreSeen, BeforeDraining, LoopRecords, RebuildRecords
<1>6. NobodyForgotten'
  BY DEF Unschedule, Unscheduled, AutoTypes, LoopShape, TableShape, ReadsAreCurrent, NobodyForgotten, OnSchedule, InHand, InTime, Wanted, Marked, Committed, LoopRecords, RebuildRecords, WithCredential
<1>7. TimerCovers'
  BY DEF Unschedule, Unscheduled, AutoTypes, LoopShape, TimerCovers, LoopRecords, RebuildRecords
<1> QED
  BY <1>1, <1>2, <1>3, <1>4, <1>5, <1>6, <1>7

LEMMA RebuildReadKeeps ==
    ASSUME AutoInv, RebuildRead
    PROVE  AutoInv'
<1> USE NeverIsLast DEF AutoInv, Instants
<1>1. AutoTypes'
  <2>1. loop' \in LoopRecords \cup RebuildRecords
    <3>1. \A x \in Credentials : NextCheck(x, clock) \in Instants
      BY NextCheckInTime DEF AutoTypes
    <3> QED
      BY <3>1 DEF RebuildRead, RebuildRecords
  <2> QED
    BY <2>1 DEF RebuildRead, AutoTypes
<1>2. LoopShape'
  BY DEF RebuildRead, AutoTypes, LoopShape, LoopRecords, RebuildRecords, WithCredential
<1>3. TableShape'
  BY DEF RebuildRead, AutoTypes, TableShape, LoopShape
<1>4. ReadsAreCurrent'
  <2>1. \A x \in Credentials : Wanted(x) => InTime(x, NextCheck(x, clock))
    BY NextCheckInTime DEF AutoTypes
  <2>2. loop'.at = "rebuild" /\ \A x \in Credentials : loop'.entries[x].next = NextCheck(x, clock)
    BY DEF RebuildRead
  <2>3. table' = table /\ clock' = clock
    BY DEF RebuildRead
  <2> QED
    BY <2>1, <2>2, <2>3 DEF ReadsAreCurrent, InTime, Wanted
<1>5. MarksAreSeen'
  BY DEF RebuildRead, AutoTypes, LoopShape, MarksAreSeen, BeforeDraining, LoopRecords, RebuildRecords
<1>6. NobodyForgotten'
  BY DEF RebuildRead, AutoTypes, LoopShape, TableShape, ReadsAreCurrent, NobodyForgotten, OnSchedule, InHand, InTime, Wanted, Marked, Committed, LoopRecords, RebuildRecords, WithCredential
<1>7. TimerCovers'
  BY DEF RebuildRead, AutoTypes, LoopShape, TimerCovers, LoopRecords, RebuildRecords
<1> QED
  BY <1>1, <1>2, <1>3, <1>4, <1>5, <1>6, <1>7

LEMMA RebuildWriteKeeps ==
    ASSUME AutoInv, RebuildWrite
    PROVE  AutoInv'
<1> USE NeverIsLast DEF AutoInv, Instants
<1>1. AutoTypes'
  <2>1. loop' \in LoopRecords \cup RebuildRecords
    <3>1. loop' = [at |-> "arm", now |-> clock, todo |-> {}, id |-> "none", next |-> Never, version |-> 0,
                  job |-> FALSE, lasted |-> 0]
      BY DEF RebuildWrite, Resting
    <3>2. clock \in Nat /\ {} \in SUBSET Credentials /\ "arm" \in LoopPlaces
      BY LoopRecordIs DEF RebuildWrite, AutoTypes, LoopRecords, LoopPlaces
    <3> QED
      BY <3>1, <3>2, RestingIs
  <2>2. schedule' \in [Credentials -> Entries]
    BY LoopRecordIs DEF RebuildWrite, RebuildRecords, Entries
  <2> QED
    BY <2>1, <2>2 DEF RebuildWrite, AutoTypes
<1>2. LoopShape'
  BY DEF RebuildWrite, Resting, AutoTypes, LoopShape, LoopRecords, RebuildRecords, WithCredential
<1>3. TableShape'
  <2>1. schedule' = loop.entries /\ \A x \in Credentials : loop.entries[x].version = 0
    BY LoopRecordIs DEF RebuildWrite, RebuildRecords
  <2> QED
    BY <2>1 DEF RebuildWrite, TableShape
<1>4. ReadsAreCurrent'
  BY DEF RebuildWrite, Resting, AutoTypes, LoopShape, TableShape, ReadsAreCurrent, InTime, Wanted, Marked, LoopRecords, RebuildRecords
<1>5. MarksAreSeen'
  BY DEF RebuildWrite, Resting, AutoTypes, LoopShape, MarksAreSeen, BeforeDraining, LoopRecords, RebuildRecords
<1>6. NobodyForgotten'
  BY DEF RebuildWrite, Resting, AutoTypes, LoopShape, TableShape, ReadsAreCurrent, NobodyForgotten, OnSchedule, InHand, InTime, Wanted, Marked, Committed, LoopRecords, RebuildRecords, WithCredential
<1>7. TimerCovers'
  BY DEF RebuildWrite, Resting, AutoTypes, LoopShape, TimerCovers, LoopRecords, RebuildRecords
<1> QED
  BY <1>1, <1>2, <1>3, <1>4, <1>5, <1>6, <1>7

LEMMA ReceiveWakeKeeps ==
    ASSUME AutoInv, ReceiveWake
    PROVE  AutoInv'
<1> USE NeverIsLast DEF AutoInv, Instants
<1>1. AutoTypes'
  <2>1. loop' \in LoopRecords \cup RebuildRecords
    <3>1. loop' = [at |-> "drain", now |-> clock, todo |-> {}, id |-> "none", next |-> Never, version |-> 0,
                  job |-> FALSE, lasted |-> 0]
      BY DEF ReceiveWake, Resting
    <3>2. clock \in Nat /\ {} \in SUBSET Credentials /\ "drain" \in LoopPlaces
      BY LoopRecordIs DEF ReceiveWake, AutoTypes, LoopRecords, LoopPlaces
    <3> QED
      BY <3>1, <3>2, RestingIs
  <2>2. wake' \in BOOLEAN
    BY DEF ReceiveWake
  <2> QED
    BY <2>1, <2>2 DEF ReceiveWake, AutoTypes
<1>2. LoopShape'
  BY DEF ReceiveWake, Resting, AutoTypes, LoopShape, LoopRecords, RebuildRecords, WithCredential
<1>3. TableShape'
  BY DEF ReceiveWake, Resting, AutoTypes, TableShape, LoopShape
<1>4. ReadsAreCurrent'
  BY DEF ReceiveWake, Resting, AutoTypes, LoopShape, TableShape, ReadsAreCurrent, InTime, Wanted, Marked, LoopRecords, RebuildRecords
<1>5. MarksAreSeen'
  BY DEF ReceiveWake, Resting, AutoTypes, LoopShape, MarksAreSeen, BeforeDraining, LoopRecords, RebuildRecords
<1>6. NobodyForgotten'
  BY DEF ReceiveWake, Resting, AutoTypes, LoopShape, TableShape, ReadsAreCurrent, NobodyForgotten, OnSchedule, InHand, InTime, Wanted, Marked, Committed, LoopRecords, RebuildRecords, WithCredential
<1>7. TimerCovers'
  BY DEF ReceiveWake, Resting, AutoTypes, LoopShape, TimerCovers, LoopRecords, RebuildRecords
<1> QED
  BY <1>1, <1>2, <1>3, <1>4, <1>5, <1>6, <1>7

LEMMA TimerFiresKeeps ==
    ASSUME AutoInv, TimerFires
    PROVE  AutoInv'
<1> USE NeverIsLast DEF AutoInv, Instants
<1>1. AutoTypes'
  <2>1. loop' \in LoopRecords \cup RebuildRecords
    <3> DEFINE ids == {x \in Credentials : schedule[x].next <= clock}
    <3>1. loop' = [at |-> "due", now |-> clock, todo |-> ids, id |-> "none", next |-> Never, version |-> 0,
                  job |-> FALSE, lasted |-> 0]
      BY DEF TimerFires, Resting
    <3>2. clock \in Nat /\ ids \in SUBSET Credentials /\ "due" \in LoopPlaces
      BY LoopRecordIs DEF TimerFires, AutoTypes, LoopRecords, LoopPlaces
    <3> QED
      BY <3>1, <3>2, RestingIs
  <2>2. schedule' \in [Credentials -> Entries]
    BY DEF TimerFires, AutoTypes, Entries, Unscheduled
  <2>3. Credentials # {} => timer' \in Nat
    BY DEF TimerFires
  <2> QED
    BY <2>1, <2>2, <2>3 DEF TimerFires, AutoTypes
<1>2. LoopShape'
  BY DEF TimerFires, Resting, Unscheduled, AutoTypes, LoopShape, LoopRecords, RebuildRecords, WithCredential
<1>3. TableShape'
  BY DEF TimerFires, Resting, Unscheduled, AutoTypes, TableShape, LoopShape
<1>4. ReadsAreCurrent'
  BY DEF TimerFires, Resting, Unscheduled, AutoTypes, LoopShape, TableShape, ReadsAreCurrent, InTime, Wanted, Marked, LoopRecords, RebuildRecords
<1>5. MarksAreSeen'
  BY DEF TimerFires, Resting, Unscheduled, AutoTypes, LoopShape, MarksAreSeen, BeforeDraining, LoopRecords, RebuildRecords
<1>6. NobodyForgotten'
  BY DEF TimerFires, Resting, Unscheduled, AutoTypes, LoopShape, TableShape, ReadsAreCurrent, NobodyForgotten, OnSchedule, InHand, InTime, Wanted, Marked, Committed, LoopRecords, RebuildRecords, WithCredential
<1>7. TimerCovers'
  BY DEF TimerFires, Resting, Unscheduled, AutoTypes, LoopShape, TimerCovers, LoopRecords, RebuildRecords
<1> QED
  BY <1>1, <1>2, <1>3, <1>4, <1>5, <1>6, <1>7

LEMMA HandleDueKeeps ==
    ASSUME AutoInv, NEW id \in Credentials, HandleDue(id)
    PROVE  AutoInv'
<1> USE NeverIsLast DEF AutoInv, Instants
<1> DEFINE next == NextCheck(id, loop.now)
<1>a. loop \in LoopRecords /\ loop.now \in 0 .. clock /\ id \in loop.todo /\ loop.at = "due"
  BY LoopRecordIs DEF HandleDue, LoopShape, LoopRecords, AutoTypes
<1>b. /\ next \in Instants /\ (Wanted(id) => InTime(id, next)) /\ (~Wanted(id) => next = Never)
  BY <1>a, NextCheckInTime
<1>c. \/ loop' = [loop EXCEPT !.todo = @ \ {id}] /\ ~Wanted(id)
      \/ loop' = [loop EXCEPT !.todo = @ \ {id}, !.id = id, !.next = next, !.at = "pending"]
      \/ loop' = [loop EXCEPT !.todo = @ \ {id}, !.id = id, !.next = next, !.at = "store"]
  <2>1. CASE table[id] = Gone
    BY <2>1 DEF HandleDue, Gone, Wanted
  <2>2. CASE table[id] # Gone
    <3>1. loop' = [loop EXCEPT !.todo = @ \ {id}, !.id = id, !.next = next,
                               !.at = IF ShouldRefresh(id, loop.now) THEN "pending" ELSE "store"]
      BY <2>2 DEF HandleDue
    <3> QED
      BY <3>1
  <2> QED
    BY <2>1, <2>2
<1>d. table' = table /\ lockedBy' = lockedBy /\ dirty' = dirty /\ clock' = clock /\ schedule' = schedule
  BY DEF HandleDue
<1> HIDE DEF next
<1>1. AutoTypes'
  <2>1. loop' \in LoopRecords \cup RebuildRecords
    <3>1. loop.todo \ {id} \in SUBSET Credentials
      BY <1>a DEF LoopRecords
    <3>2. CASE loop' = [loop EXCEPT !.todo = @ \ {id}]
      BY <1>a, <3>1, <3>2 DEF LoopRecords
    <3>3. CASE loop' = [loop EXCEPT !.todo = @ \ {id}, !.id = id, !.next = next, !.at = "pending"]
      BY <1>a, <1>b, <3>1, <3>3 DEF LoopRecords, LoopPlaces
    <3>4. CASE loop' = [loop EXCEPT !.todo = @ \ {id}, !.id = id, !.next = next, !.at = "store"]
      BY <1>a, <1>b, <3>1, <3>4 DEF LoopRecords, LoopPlaces
    <3> QED
      BY <1>c, <3>2, <3>3, <3>4
  <2> QED
    BY <2>1 DEF HandleDue, AutoTypes
<1>2. LoopShape'
  BY DEF HandleDue, Gone, ShouldRefresh, AutoTypes, LoopShape, LoopRecords, RebuildRecords, WithCredential
<1>3. TableShape'
  BY DEF HandleDue, Gone, ShouldRefresh, AutoTypes, TableShape, LoopShape
<1>4. ReadsAreCurrent'
  BY <1>a, <1>b, <1>c, <1>d DEF ReadsAreCurrent, InTime, Wanted, Marked, LoopRecords
<1>5. MarksAreSeen'
  BY DEF HandleDue, Gone, ShouldRefresh, AutoTypes, LoopShape, MarksAreSeen, BeforeDraining, LoopRecords, RebuildRecords
<1>6. NobodyForgotten'
  <2> SUFFICES ASSUME NEW x \in Credentials, Wanted(x)'
               PROVE  OnSchedule(x)' \/ Marked(x)' \/ InHand(x)'
    BY DEF NobodyForgotten
  <2>1. OnSchedule(x) \/ Marked(x) \/ InHand(x)
    BY <1>d DEF NobodyForgotten, Wanted
  <2>2. (OnSchedule(x) => OnSchedule(x)') /\ (Marked(x) => Marked(x)') /\ Wanted(x)
    BY <1>d DEF OnSchedule, Marked, InTime, Committed, Wanted
  <2>3. InHand(x) => x \in loop.todo
    BY <1>a DEF InHand
  <2>4. x \in loop.todo => InHand(x)'
    <3>1. CASE x # id
      <4>1. loop'.at # "rebuild" /\ loop'.todo = loop.todo \ {id}
        BY <1>a, <1>c DEF LoopRecords
      <4> QED
        BY <3>1, <4>1 DEF InHand
    <3>2. CASE x = id
      <4>1. loop'.at \in {"pending", "store"} /\ loop'.id = id
        BY <1>a, <1>c, <2>2, <3>2 DEF LoopRecords
      <4> QED
        BY <3>2, <4>1 DEF InHand
    <3> QED
      BY <3>1, <3>2
  <2> QED
    BY <2>1, <2>2, <2>3, <2>4
<1>7. TimerCovers'
  BY DEF HandleDue, Gone, ShouldRefresh, AutoTypes, LoopShape, TimerCovers, LoopRecords, RebuildRecords
<1> QED
  BY <1>1, <1>2, <1>3, <1>4, <1>5, <1>6, <1>7

LEMMA MarkPendingKeeps ==
    ASSUME AutoInv, MarkPending
    PROVE  AutoInv'
<1> USE NeverIsLast DEF AutoInv, Instants
<1>1. AutoTypes'
  <2>1. loop' \in LoopRecords \cup RebuildRecords
    BY LoopRecordIs DEF MarkPending, LoopRecords, LoopPlaces
  <2>2. table' \in [Credentials -> [due : Instants, version : Nat]]
    <3>1. loop.now \in 0 .. MaxClock
      BY LoopRecordIs DEF MarkPending, LoopShape, LoopRecords, AutoTypes
    <3>2. loop.now + PendingBackoff \in Instants
      BY <3>1
    <3> QED
      BY <3>2 DEF MarkPending, AutoTypes
  <2> QED
    BY <2>1, <2>2 DEF MarkPending, AutoTypes
<1>2. LoopShape'
  BY DEF MarkPending, Gone, ShouldRefresh, AutoTypes, LoopShape, LoopRecords, RebuildRecords, WithCredential
<1>3. TableShape'
  BY DEF MarkPending, Gone, ShouldRefresh, AutoTypes, TableShape, LoopShape
<1>4. ReadsAreCurrent'
  BY DEF MarkPending, Gone, ShouldRefresh, AutoTypes, LoopShape, TableShape, ReadsAreCurrent, InTime, Wanted, Marked, LoopRecords, RebuildRecords
<1>5. MarksAreSeen'
  BY DEF MarkPending, Gone, ShouldRefresh, AutoTypes, LoopShape, MarksAreSeen, BeforeDraining, LoopRecords, RebuildRecords
<1>6. NobodyForgotten'
  BY DEF MarkPending, Gone, ShouldRefresh, AutoTypes, LoopShape, TableShape, ReadsAreCurrent, NobodyForgotten, OnSchedule, InHand, InTime, Wanted, Marked, Committed, LoopRecords, RebuildRecords, WithCredential
<1>7. TimerCovers'
  BY DEF MarkPending, Gone, ShouldRefresh, AutoTypes, LoopShape, TimerCovers, LoopRecords, RebuildRecords
<1> QED
  BY <1>1, <1>2, <1>3, <1>4, <1>5, <1>6, <1>7

LEMMA RereadKeeps ==
    ASSUME AutoInv, Reread
    PROVE  AutoInv'
<1> USE NeverIsLast DEF AutoInv, Instants
<1> DEFINE next == NextCheck(loop.id, loop.now)
<1>a. loop \in LoopRecords /\ loop.now \in 0 .. clock /\ loop.id \in Credentials /\ loop.at = "reread"
  <2>1. loop.at = "reread"
    BY DEF Reread
  <2>2. loop \in LoopRecords
    BY <2>1, LoopRecordIs
  <2>3. loop.now \in Nat /\ clock \in Nat
    BY <2>2 DEF LoopRecords, AutoTypes
  <2>4. loop.now <= clock /\ loop.id \in Credentials
    BY <2>1 DEF LoopShape, WithCredential
  <2> QED
    BY <2>1, <2>2, <2>3, <2>4
<1>b. next \in Instants /\ (Wanted(loop.id) => InTime(loop.id, next))
  BY <1>a, NextCheckInTime
<1>c. loop' = [loop EXCEPT !.at = "store", !.next = next]
  BY DEF Reread
<1>d. table' = table /\ lockedBy' = lockedBy /\ dirty' = dirty /\ clock' = clock /\ schedule' = schedule
  BY DEF Reread
<1> HIDE DEF next
<1>1. AutoTypes'
  <2>1. loop' \in LoopRecords \cup RebuildRecords
    BY <1>a, <1>b, <1>c DEF LoopRecords, LoopPlaces
  <2> QED
    BY <2>1 DEF Reread, AutoTypes
<1>2. LoopShape'
  BY DEF Reread, AutoTypes, LoopShape, LoopRecords, RebuildRecords, WithCredential
<1>3. TableShape'
  BY DEF Reread, AutoTypes, TableShape, LoopShape
<1>4. ReadsAreCurrent'
  <2>1. loop'.at = "store" /\ loop'.id = loop.id /\ loop'.next = next
    BY <1>a, <1>c DEF LoopRecords
  <2> QED
    BY <1>b, <1>d, <2>1 DEF ReadsAreCurrent, InTime, Wanted
<1>5. MarksAreSeen'
  BY DEF Reread, AutoTypes, LoopShape, MarksAreSeen, BeforeDraining, LoopRecords, RebuildRecords
<1>6. NobodyForgotten'
  BY DEF Reread, AutoTypes, LoopShape, TableShape, ReadsAreCurrent, NobodyForgotten, OnSchedule, InHand, InTime, Wanted, Marked, Committed, LoopRecords, RebuildRecords, WithCredential
<1>7. TimerCovers'
  BY DEF Reread, AutoTypes, LoopShape, TimerCovers, LoopRecords, RebuildRecords
<1> QED
  BY <1>1, <1>2, <1>3, <1>4, <1>5, <1>6, <1>7

LEMMA StoreDueKeeps ==
    ASSUME AutoInv, StoreDue
    PROVE  AutoInv'
<1> USE NeverIsLast DEF AutoInv, Instants
<1>1. AutoTypes'
  <2>1. loop' \in LoopRecords \cup RebuildRecords
    BY LoopRecordIs DEF StoreDue, LoopRecords, LoopPlaces
  <2>2. schedule' \in [Credentials -> Entries]
    BY LoopRecordIs DEF StoreDue, AutoTypes, LoopRecords, Entries
  <2> QED
    BY <2>1, <2>2 DEF StoreDue, AutoTypes
<1>2. LoopShape'
  BY DEF StoreDue, AutoTypes, LoopShape, LoopRecords, RebuildRecords, WithCredential
<1>3. TableShape'
  BY DEF StoreDue, AutoTypes, TableShape, LoopShape
<1>4. ReadsAreCurrent'
  BY DEF StoreDue, AutoTypes, LoopShape, TableShape, ReadsAreCurrent, InTime, Wanted, Marked, LoopRecords, RebuildRecords
<1>5. MarksAreSeen'
  BY DEF StoreDue, AutoTypes, LoopShape, MarksAreSeen, BeforeDraining, LoopRecords, RebuildRecords
<1>6. NobodyForgotten'
  BY DEF StoreDue, AutoTypes, LoopShape, TableShape, ReadsAreCurrent, NobodyForgotten, OnSchedule, InHand, InTime, Wanted, Marked, Committed, LoopRecords, RebuildRecords, WithCredential
<1>7. TimerCovers'
  BY DEF StoreDue, AutoTypes, LoopShape, TimerCovers, LoopRecords, RebuildRecords
<1> QED
  BY <1>1, <1>2, <1>3, <1>4, <1>5, <1>6, <1>7

LEMMA SendJobKeeps ==
    ASSUME AutoInv, SendJob
    PROVE  AutoInv'
<1> USE NeverIsLast DEF AutoInv, Instants
<1>1. AutoTypes'
  <2>1. loop' \in LoopRecords \cup RebuildRecords
    BY LoopRecordIs DEF SendJob, LoopRecords, LoopPlaces
  <2>2. jobs' \in Seq(Credentials)
    BY DEF SendJob, AutoTypes, LoopShape, WithCredential
  <2> QED
    BY <2>1, <2>2 DEF SendJob, AutoTypes
<1>2. LoopShape'
  BY DEF SendJob, AutoTypes, LoopShape, LoopRecords, RebuildRecords, WithCredential
<1>3. TableShape'
  BY DEF SendJob, AutoTypes, TableShape, LoopShape
<1>4. ReadsAreCurrent'
  BY DEF SendJob, AutoTypes, LoopShape, TableShape, ReadsAreCurrent, InTime, Wanted, Marked, LoopRecords, RebuildRecords
<1>5. MarksAreSeen'
  BY DEF SendJob, AutoTypes, LoopShape, MarksAreSeen, BeforeDraining, LoopRecords, RebuildRecords
<1>6. NobodyForgotten'
  BY DEF SendJob, AutoTypes, LoopShape, TableShape, ReadsAreCurrent, NobodyForgotten, OnSchedule, InHand, InTime, Wanted, Marked, Committed, LoopRecords, RebuildRecords, WithCredential
<1>7. TimerCovers'
  BY DEF SendJob, AutoTypes, LoopShape, TimerCovers, LoopRecords, RebuildRecords
<1> QED
  BY <1>1, <1>2, <1>3, <1>4, <1>5, <1>6, <1>7

LEMMA DrainDirtyKeeps ==
    ASSUME AutoInv, DrainDirty
    PROVE  AutoInv'
<1> USE NeverIsLast DEF AutoInv, Instants
<1>1. AutoTypes'
  <2>1. loop' \in LoopRecords \cup RebuildRecords
    <3>1. loop' = [at |-> "dirty", now |-> loop.now, todo |-> dirty, id |-> "none", next |-> Never, version |-> 0,
                  job |-> FALSE, lasted |-> 0]
      BY DEF DrainDirty, Resting
    <3>2. loop.now \in Nat /\ dirty \in SUBSET Credentials /\ "dirty" \in LoopPlaces
      BY LoopRecordIs DEF DrainDirty, AutoTypes, LoopRecords, LoopPlaces
    <3> QED
      BY <3>1, <3>2, RestingIs
  <2>2. dirty' \in SUBSET Credentials
    BY DEF DrainDirty
  <2> QED
    BY <2>1, <2>2 DEF DrainDirty, AutoTypes
<1>2. LoopShape'
  BY DEF DrainDirty, Resting, AutoTypes, LoopShape, LoopRecords, RebuildRecords, WithCredential
<1>3. TableShape'
  BY DEF DrainDirty, Resting, AutoTypes, TableShape, LoopShape
<1>4. ReadsAreCurrent'
  BY DEF DrainDirty, Resting, AutoTypes, LoopShape, TableShape, ReadsAreCurrent, InTime, Wanted, Marked, LoopRecords, RebuildRecords
<1>5. MarksAreSeen'
  BY DEF DrainDirty, Resting, AutoTypes, LoopShape, MarksAreSeen, BeforeDraining, LoopRecords, RebuildRecords
<1>6. NobodyForgotten'
  BY DEF DrainDirty, Resting, AutoTypes, LoopShape, TableShape, ReadsAreCurrent, NobodyForgotten, OnSchedule, InHand, InTime, Wanted, Marked, Committed, LoopRecords, RebuildRecords, WithCredential
<1>7. TimerCovers'
  BY DEF DrainDirty, Resting, AutoTypes, LoopShape, TimerCovers, LoopRecords, RebuildRecords
<1> QED
  BY <1>1, <1>2, <1>3, <1>4, <1>5, <1>6, <1>7

LEMMA ReadDirtyKeeps ==
    ASSUME AutoInv, NEW id \in Credentials, ReadDirty(id)
    PROVE  AutoInv'
<1> USE NeverIsLast DEF AutoInv, Instants
<1> DEFINE next == NextCheck(id, loop.now)
<1>a. loop \in LoopRecords /\ loop.now \in 0 .. clock /\ id \in loop.todo /\ loop.at = "dirty"
  BY LoopRecordIs DEF ReadDirty, LoopShape, LoopRecords, AutoTypes
<1>b. next \in Instants /\ (Wanted(id) => InTime(id, next))
  BY <1>a, NextCheckInTime
<1>c. loop' = [loop EXCEPT !.at = "reschedule", !.todo = @ \ {id}, !.id = id, !.next = next, !.version = table[id].version]
  BY DEF ReadDirty
<1>d. table' = table /\ lockedBy' = lockedBy /\ dirty' = dirty /\ clock' = clock /\ schedule' = schedule
  BY DEF ReadDirty
<1> HIDE DEF next
<1>1. AutoTypes'
  <2>1. loop' \in LoopRecords \cup RebuildRecords
    <3>1. table[id].version \in Nat
      BY DEF AutoTypes
    <3> QED
      BY <1>a, <1>b, <1>c, <3>1 DEF LoopRecords, LoopPlaces
  <2> QED
    BY <2>1 DEF ReadDirty, AutoTypes
<1>2. LoopShape'
  BY DEF ReadDirty, AutoTypes, LoopShape, LoopRecords, RebuildRecords, WithCredential
<1>3. TableShape'
  BY DEF ReadDirty, AutoTypes, TableShape, LoopShape
<1>4. ReadsAreCurrent'
  <2>1. loop'.at = "reschedule" /\ loop'.id = id /\ loop'.next = next /\ loop'.version = table[id].version
    BY <1>a, <1>c DEF LoopRecords
  <2> QED
    BY <1>b, <1>d, <2>1 DEF ReadsAreCurrent, InTime, Wanted
<1>5. MarksAreSeen'
  BY DEF ReadDirty, AutoTypes, LoopShape, MarksAreSeen, BeforeDraining, LoopRecords, RebuildRecords
<1>6. NobodyForgotten'
  BY DEF ReadDirty, AutoTypes, LoopShape, TableShape, ReadsAreCurrent, NobodyForgotten, OnSchedule, InHand, InTime, Wanted, Marked, Committed, LoopRecords, RebuildRecords, WithCredential
<1>7. TimerCovers'
  BY DEF ReadDirty, AutoTypes, LoopShape, TimerCovers, LoopRecords, RebuildRecords
<1> QED
  BY <1>1, <1>2, <1>3, <1>4, <1>5, <1>6, <1>7

LEMMA StoreDirtyKeeps ==
    ASSUME AutoInv, StoreDirty
    PROVE  AutoInv'
<1> USE NeverIsLast DEF AutoInv, Instants
<1>1. AutoTypes'
  <2>1. loop' \in LoopRecords \cup RebuildRecords
    BY LoopRecordIs DEF StoreDirty, LoopRecords, LoopPlaces
  <2>2. schedule' \in [Credentials -> Entries]
    BY LoopRecordIs DEF StoreDirty, AutoTypes, LoopRecords, Entries
  <2> QED
    BY <2>1, <2>2 DEF StoreDirty, AutoTypes
<1>2. LoopShape'
  BY DEF StoreDirty, AutoTypes, LoopShape, LoopRecords, RebuildRecords, WithCredential
<1>3. TableShape'
  BY DEF StoreDirty, AutoTypes, TableShape, LoopShape
<1>4. ReadsAreCurrent'
  BY DEF StoreDirty, AutoTypes, LoopShape, TableShape, ReadsAreCurrent, InTime, Wanted, Marked, LoopRecords, RebuildRecords
<1>5. MarksAreSeen'
  BY DEF StoreDirty, AutoTypes, LoopShape, MarksAreSeen, BeforeDraining, LoopRecords, RebuildRecords
<1>6. NobodyForgotten'
  <2> SUFFICES ASSUME NEW x \in Credentials, Wanted(x)'
               PROVE  OnSchedule(x)' \/ Marked(x)' \/ InHand(x)'
    BY DEF NobodyForgotten
  <2>1. /\ loop \in LoopRecords /\ loop.at = "reschedule" /\ loop.id \in Credentials
        /\ loop'.at = "dirty" /\ loop'.todo = loop.todo
        /\ table' = table /\ lockedBy' = lockedBy /\ dirty' = dirty /\ clock' = clock
    BY LoopRecordIs DEF StoreDirty, LoopShape, WithCredential, LoopRecords
  <2>2. Wanted(x) /\ (OnSchedule(x) \/ Marked(x) \/ InHand(x)) /\ (Marked(x) => Marked(x)')
    BY <2>1 DEF NobodyForgotten, Wanted, Marked
  <2>3. CASE x # loop.id
    <3>1. schedule'[x] = schedule[x]
      BY <2>3 DEF StoreDirty, AutoTypes
    <3>2. OnSchedule(x) => OnSchedule(x)'
      BY <2>1, <3>1 DEF OnSchedule, InTime, Committed
    <3>3. InHand(x) => InHand(x)'
      BY <2>1, <2>3 DEF InHand
    <3> QED
      BY <2>2, <3>2, <3>3
  <2>4. CASE x = loop.id
    <3>1. (InTime(x, loop.next) /\ loop.version = table[x].version) \/ Marked(x)
      BY <2>1, <2>2, <2>4 DEF ReadsAreCurrent
    <3>2. ASSUME InTime(x, loop.next), loop.version = table[x].version PROVE OnSchedule(x)'
      <4>1. CASE loop.next # Never /\ Committed(schedule[x], loop.version)
        <5>1. schedule'[x] = schedule[x]
          BY <2>4, <4>1 DEF StoreDirty
        <5>2. Committed(schedule'[x], table'[x].version) /\ schedule[x].version >= loop.version /\ loop.version > 0
          BY <2>1, <3>2, <4>1, <5>1 DEF Committed
        <5>3. schedule[x].next # Never
          <6>1. schedule[x].version \in Nat /\ loop.version \in Nat
            BY <2>1 DEF AutoTypes, Entries, LoopRecords
          <6>2. schedule[x].version # 0
            BY <5>2, <6>1
          <6> QED
            BY <6>2 DEF TableShape
        <5> QED
          BY <5>1, <5>2, <5>3 DEF OnSchedule
      <4>2. CASE ~(loop.next # Never /\ Committed(schedule[x], loop.version))
        <5>1. schedule'[x].next = loop.next
          BY <2>4, <4>2 DEF StoreDirty, AutoTypes
        <5> QED
          BY <2>1, <3>2, <5>1 DEF OnSchedule, InTime
      <4> QED
        BY <4>1, <4>2
    <3> QED
      BY <2>2, <3>1, <3>2
  <2> QED
    BY <2>3, <2>4
<1>7. TimerCovers'
  BY DEF StoreDirty, AutoTypes, LoopShape, TimerCovers, LoopRecords, RebuildRecords
<1> QED
  BY <1>1, <1>2, <1>3, <1>4, <1>5, <1>6, <1>7

LEMMA ReceiveJobKeeps ==
    ASSUME AutoInv, NEW w \in RefreshWorkers, ReceiveJob(w)
    PROVE  AutoInv'
<1> USE NeverIsLast DEF AutoInv, Instants
<1>1. AutoTypes'
  <2>1. Head(jobs) \in Credentials /\ Tail(jobs) \in Seq(Credentials)
    BY DEF ReceiveJob, AutoTypes
  <2>2. refreshWorker' \in [RefreshWorkers -> [at : {"rest", "refresh", "wake"}, id : Credentials \cup {"none"}]]
    BY <2>1 DEF ReceiveJob, AutoTypes
  <2>3. loop' \in LoopRecords \cup RebuildRecords
    BY DEF ReceiveJob, AutoTypes
  <2> QED
    BY <2>1, <2>2, <2>3 DEF ReceiveJob, AutoTypes
<1>2. LoopShape'
  BY DEF ReceiveJob, AutoTypes, LoopShape, LoopRecords, RebuildRecords, WithCredential
<1>3. TableShape'
  BY DEF ReceiveJob, AutoTypes, TableShape, LoopShape
<1>4. ReadsAreCurrent'
  BY DEF ReceiveJob, AutoTypes, LoopShape, TableShape, ReadsAreCurrent, InTime, Wanted, Marked, LoopRecords, RebuildRecords
<1>5. MarksAreSeen'
  BY DEF ReceiveJob, AutoTypes, LoopShape, MarksAreSeen, BeforeDraining, LoopRecords, RebuildRecords
<1>6. NobodyForgotten'
  BY DEF ReceiveJob, AutoTypes, LoopShape, TableShape, ReadsAreCurrent, NobodyForgotten, OnSchedule, InHand, InTime, Wanted, Marked, Committed, LoopRecords, RebuildRecords, WithCredential
<1>7. TimerCovers'
  BY DEF ReceiveJob, AutoTypes, LoopShape, TimerCovers, LoopRecords, RebuildRecords
<1> QED
  BY <1>1, <1>2, <1>3, <1>4, <1>5, <1>6, <1>7

LEMMA RescheduleKeeps ==
    ASSUME AutoInv, NEW w \in RefreshWorkers, NEW resolved \in Instants, RescheduleAfterRefresh(w, resolved)
    PROVE  AutoInv'
<1> USE NeverIsLast DEF AutoInv, Instants
<1> DEFINE id == refreshWorker[w].id
           entry == schedule'[id]
<1>a. id \in Credentials
  BY DEF RescheduleAfterRefresh, TableShape
<1>b. /\ table' = table /\ clock' = clock /\ loop' = loop /\ dirty' = dirty /\ lockedBy' = lockedBy
      /\ schedule' = [schedule EXCEPT ![id] = AfterRefresh(id, resolved)]
  BY DEF RescheduleAfterRefresh
<1>c. NextCheck(id, clock) \in Instants /\ (Wanted(id) => InTime(id, NextCheck(id, clock)))
      /\ (~Wanted(id) => NextCheck(id, clock) = Never)
  <2>1. clock \in 0 .. clock /\ AutoTypes
    BY DEF AutoTypes
  <2> HIDE DEF id
  <2> QED
    BY <1>a, <2>1, NextCheckInTime
<1>d. /\ entry \in Entries /\ (entry.next = Never => entry.version = 0)
      /\ Wanted(id) => InTime(id, entry.next) \/ (entry.next # Never /\ Committed(entry, table[id].version))
  <2>1. entry = AfterRefresh(id, resolved) /\ table[id].version \in Nat /\ clock \in Int /\ resolved \in Int
    BY <1>a, <1>b DEF AutoTypes
  <2>2. CASE resolved # Never /\ table[id] # Gone
    <3> DEFINE next == Max({resolved, clock})
    <3>1. next = IF resolved > clock THEN resolved ELSE clock
      BY <2>1, MaxOfTwo
    <3>2. next \in Instants /\ next # Never
      BY <2>2, <3>1 DEF AutoTypes
    <3> HIDE DEF next
    <3>3. entry = [next |-> next, version |-> table[id].version]
      BY <2>1, <2>2, <3>2 DEF AfterRefresh, next
    <3>4. Wanted(id) => table[id].version > 0
      BY <1>a, <2>1 DEF TableShape, Wanted
    <3> QED
      BY <2>1, <3>2, <3>3, <3>4 DEF Entries, Committed, Unscheduled
  <2>3. CASE ~(resolved # Never /\ table[id] # Gone)
    <3>1. entry = IF NextCheck(id, clock) = Never THEN Unscheduled ELSE [next |-> NextCheck(id, clock), version |-> table[id].version]
      BY <2>1, <2>3 DEF AfterRefresh
    <3> DEFINE next == NextCheck(id, clock)
    <3> HIDE DEF next
    <3>2. CASE next = Never
      <4>1. entry.next = Never /\ entry.version = 0 /\ entry \in Entries
        BY <3>1, <3>2 DEF Unscheduled, Entries, next
      <4> QED
        BY <1>c, <3>2, <4>1 DEF next, InTime
    <3>3. CASE next # Never
      <4>1. entry = [next |-> next, version |-> table[id].version]
        BY <3>1, <3>3 DEF next
      <4> QED
        BY <1>c, <2>1, <3>3, <4>1 DEF Entries, next
    <3> QED
      BY <3>2, <3>3
  <2> QED
    BY <2>2, <2>3
<1> HIDE DEF entry
<1>1. AutoTypes'
  <2>1. schedule' \in [Credentials -> Entries]
    BY <1>a, <1>b, <1>d DEF entry, AutoTypes
  <2>2. refreshWorker' \in [RefreshWorkers -> [at : {"rest", "refresh", "wake"}, id : Credentials \cup {"none"}]]
    BY DEF RescheduleAfterRefresh, AutoTypes
  <2> QED
    BY <2>1, <2>2 DEF RescheduleAfterRefresh, AutoTypes
<1>2. LoopShape'
  BY DEF RescheduleAfterRefresh, AfterRefresh, Unscheduled, AutoTypes, LoopShape, LoopRecords, RebuildRecords, WithCredential
<1>3. TableShape'
  <2>1. \A x \in Credentials : schedule'[x].next = Never => schedule'[x].version = 0
    <3>1. schedule'[id].next = Never => schedule'[id].version = 0
      BY <1>d DEF entry
    <3>2. \A x \in Credentials : x # id => schedule'[x] = schedule[x]
      BY <1>a, <1>b DEF AutoTypes
    <3> QED
      BY <3>1, <3>2 DEF TableShape
  <2>2. \A v \in RefreshWorkers : refreshWorker'[v].at = "refresh" => refreshWorker'[v].id \in Credentials
    BY DEF RescheduleAfterRefresh, TableShape, AutoTypes
  <2> QED
    BY <1>b, <2>1, <2>2 DEF TableShape
<1>4. ReadsAreCurrent'
  BY DEF RescheduleAfterRefresh, AfterRefresh, Unscheduled, AutoTypes, LoopShape, TableShape, ReadsAreCurrent, InTime, Wanted, Marked, LoopRecords, RebuildRecords
<1>5. MarksAreSeen'
  BY DEF RescheduleAfterRefresh, AfterRefresh, Unscheduled, AutoTypes, LoopShape, MarksAreSeen, BeforeDraining, LoopRecords, RebuildRecords
<1>6. NobodyForgotten'
  <2> SUFFICES ASSUME NEW x \in Credentials, Wanted(x)'
               PROVE  OnSchedule(x)' \/ Marked(x)' \/ InHand(x)'
    BY DEF NobodyForgotten
  <2>1. Wanted(x) /\ (OnSchedule(x) \/ Marked(x) \/ InHand(x))
    BY <1>b DEF NobodyForgotten, Wanted
  <2>2. (Marked(x) => Marked(x)') /\ (InHand(x) => InHand(x)')
    BY <1>b DEF Marked, InHand
  <2>3. CASE x = id
    <3>1. InTime(x, entry.next) \/ (entry.next # Never /\ Committed(entry, table[x].version))
      BY <1>d, <2>1, <2>3
    <3> QED
      BY <1>b, <2>3, <3>1 DEF OnSchedule, InTime, Committed, entry
  <2>4. CASE x # id
    <3>1. schedule'[x] = schedule[x]
      BY <1>a, <1>b, <2>4 DEF AutoTypes
    <3>2. OnSchedule(x) => OnSchedule(x)'
      BY <1>b, <3>1 DEF OnSchedule, InTime, Committed
    <3> QED
      BY <2>1, <2>2, <3>2
  <2> QED
    BY <2>3, <2>4
<1>7. TimerCovers'
  BY DEF RescheduleAfterRefresh, AfterRefresh, Unscheduled, AutoTypes, LoopShape, TimerCovers, LoopRecords, RebuildRecords
<1> QED
  BY <1>1, <1>2, <1>3, <1>4, <1>5, <1>6, <1>7

LEMMA WorkerWakesKeeps ==
    ASSUME AutoInv, NEW w \in RefreshWorkers, WorkerWakes(w)
    PROVE  AutoInv'
<1> USE NeverIsLast DEF AutoInv, Instants
<1>1. AutoTypes'
  <2>1. loop' \in LoopRecords \cup RebuildRecords
    BY DEF WorkerWakes, AutoTypes, LoopShape, LoopRecords, RebuildRecords, LoopPlaces, Entries
  <2> QED
    BY <2>1 DEF WorkerWakes, AutoTypes, Entries
<1>2. LoopShape'
  BY DEF WorkerWakes, AutoTypes, LoopShape, LoopRecords, RebuildRecords, WithCredential
<1>3. TableShape'
  BY DEF WorkerWakes, AutoTypes, TableShape, LoopShape
<1>4. ReadsAreCurrent'
  BY DEF WorkerWakes, AutoTypes, LoopShape, TableShape, ReadsAreCurrent, InTime, Wanted, Marked, LoopRecords, RebuildRecords
<1>5. MarksAreSeen'
  BY DEF WorkerWakes, AutoTypes, LoopShape, MarksAreSeen, BeforeDraining, LoopRecords, RebuildRecords
<1>6. NobodyForgotten'
  BY DEF WorkerWakes, AutoTypes, LoopShape, TableShape, ReadsAreCurrent, NobodyForgotten, OnSchedule, InHand, InTime, Wanted, Marked, Committed, LoopRecords, RebuildRecords, WithCredential
<1>7. TimerCovers'
  BY DEF WorkerWakes, AutoTypes, LoopShape, TimerCovers, LoopRecords, RebuildRecords
<1> QED
  BY <1>1, <1>2, <1>3, <1>4, <1>5, <1>6, <1>7

LEMMA ClockTicksKeeps ==
    ASSUME AutoInv, ClockTicks
    PROVE  AutoInv'
<1> USE NeverIsLast DEF AutoInv, Instants
<1>1. AutoTypes'
  <2>1. loop' \in LoopRecords \cup RebuildRecords
    BY DEF ClockTicks, AutoTypes, LoopShape, LoopRecords, RebuildRecords, LoopPlaces, Entries
  <2> QED
    BY <2>1 DEF ClockTicks, AutoTypes, Entries
<1>2. LoopShape'
  BY DEF ClockTicks, AutoTypes, LoopShape, LoopRecords, RebuildRecords, WithCredential
<1>3. TableShape'
  BY DEF ClockTicks, AutoTypes, TableShape, LoopShape
<1>4. ReadsAreCurrent'
  <2>1. \A x \in Credentials : table'[x] = table[x] /\ lockedBy'[x] = lockedBy[x]
    BY DEF ClockTicks
  <2>2. loop' = loop /\ dirty' = dirty /\ clock' = clock + 1 /\ clock \in Nat
    BY DEF ClockTicks, AutoTypes
  <2>3. \A x \in Credentials : \A instant \in Instants : InTime(x, instant) => instant <= table'[x].due \/ instant <= clock'
    BY <2>1, <2>2 DEF InTime, AutoTypes
  <2> QED
    BY <2>1, <2>2, <2>3, ReadsKept DEF Wanted, Marked
<1>5. MarksAreSeen'
  BY DEF ClockTicks, AutoTypes, LoopShape, MarksAreSeen, BeforeDraining, LoopRecords, RebuildRecords
<1>6. NobodyForgotten'
  <2> SUFFICES ASSUME NEW x \in Credentials, Wanted(x)'
               PROVE  OnSchedule(x)' \/ Marked(x)' \/ InHand(x)'
    BY DEF NobodyForgotten
  <2>1. /\ table' = table /\ schedule' = schedule /\ lockedBy' = lockedBy /\ dirty' = dirty /\ loop' = loop
        /\ clock' = clock + 1 /\ clock \in Nat
    BY DEF ClockTicks, AutoTypes
  <2>2. Wanted(x) /\ (OnSchedule(x) \/ Marked(x) \/ InHand(x))
    BY <2>1 DEF NobodyForgotten, Wanted
  <2>3. schedule[x].next \in Nat /\ table[x].due \in Nat
    BY DEF AutoTypes, Entries
  <2>4. OnSchedule(x) => OnSchedule(x)'
    BY <2>1, <2>3 DEF OnSchedule, InTime, Committed
  <2>5. (Marked(x) => Marked(x)') /\ (InHand(x) => InHand(x)')
    BY <2>1 DEF Marked, InHand
  <2> QED
    BY <2>2, <2>4, <2>5
<1>7. TimerCovers'
  <2> SUFFICES ASSUME loop'.at = "rest", ~wake', \A w \in RefreshWorkers : refreshWorker'[w].at # "wake",
                      NEW x \in Credentials, schedule'[x].next # Never
               PROVE  timer' <= schedule'[x].next + loop'.lasted \/ timer' <= clock' + loop'.lasted
    BY DEF TimerCovers
  <2>1. /\ timer' = timer /\ schedule' = schedule /\ loop' = loop /\ wake' = wake /\ refreshWorker' = refreshWorker
        /\ clock' = clock + 1 /\ clock \in Nat /\ timer \in Nat /\ schedule[x].next \in Nat
    BY DEF ClockTicks, AutoTypes, Entries
  <2>2. loop.lasted \in Nat
    BY <2>1, LoopRecordIs DEF LoopRecords
  <2>3. timer <= schedule[x].next + loop.lasted \/ timer <= clock + loop.lasted
    BY <2>1 DEF TimerCovers
  <2> QED
    BY <2>1, <2>2, <2>3
<1> QED
  BY <1>1, <1>2, <1>3, <1>4, <1>5, <1>6, <1>7

LEMMA LeastIs ==
    ASSUME NEW S \in SUBSET Nat, S # {}
    PROVE  Min(S) \in S /\ \A y \in S : Min(S) <= y
<1>1. \E x \in S : \A y \in S : x <= y
  BY LeastElement
<1> QED
  BY <1>1 DEF Min

\* The round ends: its timer covers every schedule, but for the time the round took.
LEMMA ResetTimerKeeps ==
    ASSUME AutoInv, ResetTimer
    PROVE  AutoInv'
<1> USE NeverIsLast DEF AutoInv, Instants
<1> DEFINE due == {schedule[x].next : x \in Credentials}
           head == Min(due)
           past == head - loop.now
           wait == Max({0, past})
           lasted == clock - loop.now
           end == clock + wait
<1>1. /\ loop \in LoopRecords /\ loop.at \in {"arm", "dirty"} /\ loop.todo = {} /\ loop.now \in Nat
      /\ loop.now <= clock /\ clock \in Nat
  BY LoopRecordIs DEF ResetTimer, LoopShape, LoopRecords, AutoTypes
<1>2. loop' = [at |-> "rest", now |-> 0, todo |-> {}, id |-> "none", next |-> Never, version |-> 0, job |-> FALSE,
               lasted |-> lasted]
  BY DEF ResetTimer, Resting
<1>3. lasted \in Nat
  BY <1>1
<1>4. loop' \in LoopRecords
  BY <1>2, <1>3 DEF LoopRecords, LoopPlaces
<1>5. /\ timer' = IF head = Never THEN Never ELSE Min({Never - 1, end})
      /\ table' = table /\ lockedBy' = lockedBy /\ schedule' = schedule /\ dirty' = dirty /\ wake' = wake
      /\ jobs' = jobs /\ refreshWorker' = refreshWorker /\ clock' = clock /\ changes' = changes
  BY DEF ResetTimer
<1>6. \A x \in Credentials : schedule[x].next \in 0 .. Never
  BY DEF AutoTypes, Entries
<1>7. ASSUME Credentials # {}
      PROVE  /\ timer' \in Nat
             /\ \A x \in Credentials : schedule[x].next # Never =>
                   timer' <= schedule[x].next + lasted \/ timer' <= clock + lasted
  <2>1. head \in due /\ \A y \in due : head <= y
    <3>1. due \in SUBSET Nat /\ due # {}
      BY <1>6, <1>7
    <3> HIDE DEF due
    <3> QED
      BY <3>1, LeastIs
  <2>2. head \in 0 .. Never /\ \A x \in Credentials : head <= schedule[x].next
    BY <1>6, <2>1
  <2> HIDE DEF due, head
  <2>3. CASE head = Never
    <3>1. timer' = Never /\ \A x \in Credentials : schedule[x].next = Never
      BY <1>5, <1>6, <2>2, <2>3
    <3> QED
      BY <3>1
  <2>4. CASE head # Never
    <3>1. past \in Int
      BY <1>1, <2>2
    <3>2. wait = IF 0 > past THEN 0 ELSE past
      <4> HIDE DEF past
      <4> QED
        BY <3>1, MaxOfTwo
    <3>3. wait \in Nat /\ end \in Nat
      <4> HIDE DEF past, wait
      <4> QED
        BY <1>1, <3>1, <3>2
    <3>4. timer' = Min({Never - 1, end}) /\ Never - 1 \in Nat
      BY <1>5, <2>4
    <3>5. timer' = IF Never - 1 < end THEN Never - 1 ELSE end
      <4> DEFINE last == Never - 1
      <4> HIDE DEF end, last
      <4>1. last \in Int /\ end \in Int
        BY <3>3, <3>4 DEF last
      <4>2. Min({last, end}) = IF last < end THEN last ELSE end
        BY <4>1, MinOfTwo
      <4> QED
        BY <3>4, <4>2 DEF last
    <3>6. timer' \in Nat /\ timer' <= end
      <4> HIDE DEF end
      <4> QED
        BY <3>3, <3>4, <3>5
    <3>7. end <= clock + lasted \/ end <= head + lasted
      <4>1. CASE 0 > past
        <5>1. end = clock
          BY <1>1, <3>2, <4>1
        <5> QED
          BY <1>1, <1>3, <5>1
      <4>2. CASE ~(0 > past)
        <5>1. end = clock + (head - loop.now)
          BY <3>2, <4>2
        <5> QED
          BY <1>1, <2>2, <5>1
      <4> QED
        BY <4>1, <4>2
    <3> HIDE DEF end, lasted
    <3> QED
      BY <1>1, <1>3, <1>6, <2>2, <3>3, <3>6, <3>7
  <2> QED
    BY <2>3, <2>4
<1>8. AutoTypes'
  BY <1>4, <1>5, <1>7 DEF AutoTypes
<1>9. LoopShape'
  BY <1>1, <1>2, <1>5 DEF LoopShape, WithCredential
<1>10. TableShape'
  BY <1>5 DEF TableShape
<1>11. ReadsAreCurrent'
  BY <1>2 DEF ReadsAreCurrent
<1>12. MarksAreSeen'
  BY <1>1, <1>5 DEF MarksAreSeen, BeforeDraining
<1>13. NobodyForgotten'
  <2> SUFFICES ASSUME NEW x \in Credentials, Wanted(x)'
               PROVE  OnSchedule(x)' \/ Marked(x)' \/ InHand(x)'
    BY DEF NobodyForgotten
  <2>1. Wanted(x) /\ (OnSchedule(x) \/ Marked(x) \/ InHand(x))
    BY <1>5 DEF NobodyForgotten, Wanted
  <2>2. ~InHand(x)
    BY <1>1 DEF InHand
  <2>3. (OnSchedule(x) => OnSchedule(x)') /\ (Marked(x) => Marked(x)')
    BY <1>5 DEF OnSchedule, Marked, InTime, Committed
  <2> QED
    BY <2>1, <2>2, <2>3
<1>14. TimerCovers'
  <2> SUFFICES ASSUME NEW x \in Credentials, schedule'[x].next # Never
               PROVE  timer' <= schedule'[x].next + loop'.lasted \/ timer' <= clock' + loop'.lasted
    BY DEF TimerCovers
  <2> QED
    BY <1>2, <1>5, <1>7
<1> QED
  BY <1>8, <1>9, <1>10, <1>11, <1>12, <1>13, <1>14

LEMMA AutoNextKeeps == AutoInv /\ [AutoNext]_autoVars => AutoInv'
<1> SUFFICES ASSUME AutoInv, [AutoNext]_autoVars PROVE AutoInv'
  OBVIOUS
<1>1. CASE \E id \in Credentials :
              \/ \E due \in {clock, clock + 1, Never}, version \in 1 .. MaxChanges + 1 : Change(id, due, version)
              \/ QueueReschedule(id) \/ WakeLoop(id) \/ Delete(id) \/ Unschedule(id)
              \/ HandleDue(id) \/ ReadDirty(id)
  <2>1. PICK id \in Credentials :
              \/ \E due \in {clock, clock + 1, Never}, version \in 1 .. MaxChanges + 1 : Change(id, due, version)
              \/ QueueReschedule(id) \/ WakeLoop(id) \/ Delete(id) \/ Unschedule(id)
              \/ HandleDue(id) \/ ReadDirty(id)
    BY <1>1
  <2>2. ASSUME NEW due \in {clock, clock + 1, Never}, NEW version, Change(id, due, version) PROVE AutoInv'
    <3>1. due \in Instants
      BY NeverIsLast DEF AutoInv, AutoTypes, Instants
    <3>2. version \in Nat
      BY <2>2 DEF Change, AutoInv, AutoTypes
    <3> QED
      BY <2>2, <3>1, <3>2, ChangeKeeps
  <2> QED
    BY <2>1, <2>2, QueueRescheduleKeeps, WakeLoopKeeps, DeleteKeeps, UnscheduleKeeps, HandleDueKeeps, ReadDirtyKeeps
<1>2. CASE \E w \in RefreshWorkers :
              \/ ReceiveJob(w) \/ WorkerWakes(w)
              \/ \E resolved \in {clock + 1, Never} : RescheduleAfterRefresh(w, resolved)
  <2>1. {clock + 1, Never} \subseteq Instants
    BY NeverIsLast DEF AutoInv, AutoTypes, Instants
  <2> QED
    BY <1>2, <2>1, ReceiveJobKeeps, WorkerWakesKeeps, RescheduleKeeps
<1>3. CASE UNCHANGED autoVars
  <2>1. /\ table' = table /\ lockedBy' = lockedBy /\ schedule' = schedule /\ dirty' = dirty /\ wake' = wake
        /\ timer' = timer /\ jobs' = jobs /\ loop' = loop /\ refreshWorker' = refreshWorker
        /\ clock' = clock /\ changes' = changes
    BY <1>3 DEF autoVars
  <2>2. AutoTypes' /\ LoopShape' /\ TableShape' /\ TimerCovers' /\ MarksAreSeen'
    BY <2>1 DEF AutoInv, AutoTypes, LoopShape, TableShape, TimerCovers, MarksAreSeen
  <2>3. ReadsAreCurrent' /\ NobodyForgotten'
    BY <2>1 DEF AutoInv, ReadsAreCurrent, NobodyForgotten, OnSchedule, InHand, Marked, InTime, Committed, Wanted
  <2> QED
    BY <2>2, <2>3 DEF AutoInv
<1> QED
  BY <1>1, <1>2, <1>3, RebuildReadKeeps, RebuildWriteKeeps, ReceiveWakeKeeps, TimerFiresKeeps, MarkPendingKeeps,
     RereadKeeps, StoreDueKeeps, SendJobKeeps, DrainDirtyKeeps, StoreDirtyKeeps, ResetTimerKeeps, ClockTicksKeeps
     DEF AutoNext

LEMMA AutoInitInv == AutoInit => AutoInv
<1> SUFFICES ASSUME AutoInit PROVE AutoInv
  OBVIOUS
<1> USE NeverIsLast DEF Instants
<1>1. loop = [at |-> "published", now |-> 0, todo |-> {}, id |-> "none", next |-> Never, version |-> 0, job |-> FALSE,
              lasted |-> 0]
  BY DEF AutoInit, Resting
<1>2. loop \in LoopRecords
  BY <1>1 DEF LoopRecords, LoopPlaces
<1>3. \A id \in Credentials : table[id] = [due |-> Never, version |-> 0] \/ table[id] = [due |-> 1, version |-> 1]
  BY DEF AutoInit, Gone
<1>4. 1 \in Instants
  OBVIOUS
<1>5. table \in [Credentials -> [due : Instants, version : Nat]]
  BY <1>3, <1>4 DEF AutoInit, Gone
<1>6. AutoTypes
  <2>1. /\ lockedBy \in [Credentials -> {"none", "mark", "wake", "unschedule"}]
        /\ dirty \in SUBSET Credentials /\ wake \in BOOLEAN /\ timer \in Nat
    BY DEF AutoInit
  <2>4. jobs \in Seq(Credentials)
    BY DEF AutoInit
  <2>2. schedule \in [Credentials -> Entries]
    BY DEF AutoInit, Entries, Unscheduled
  <2>3. /\ refreshWorker \in [RefreshWorkers -> [at : {"rest", "refresh", "wake"}, id : Credentials \cup {"none"}]]
        /\ clock \in 0 .. MaxClock /\ changes \in [Credentials -> Nat]
    BY DEF AutoInit
  <2> QED
    BY <1>2, <1>5, <2>1, <2>2, <2>3, <2>4 DEF AutoTypes
<1>7. LoopShape /\ ReadsAreCurrent /\ TimerCovers /\ NobodyForgotten /\ MarksAreSeen
  BY <1>1 DEF AutoInit, LoopShape, ReadsAreCurrent, TimerCovers, NobodyForgotten, InHand, MarksAreSeen, WithCredential
<1>8. TableShape
  BY <1>3 DEF TableShape, AutoInit, Unscheduled
<1> QED
  BY <1>6, <1>7, <1>8 DEF AutoInv

\* While the loop rests, every credential that is to be refreshed is scheduled in time,
\* or as a worker committed it, and the timer fires by then.
THEOREM EveryoneIsRefreshed == AutoSpec => []NoCredentialForgotten
<1>1. AutoInv => NoCredentialForgotten
  <2> SUFFICES ASSUME AutoInv, AtRest, NEW id \in Credentials, table[id].due # Never
               PROVE  /\ schedule[id] # Unscheduled
                      /\ timer <= Max({schedule[id].next, clock}) + loop.lasted
                      /\ \/ schedule[id].next <= Max({table[id].due, clock})
                         \/ Committed(schedule[id], table[id].version)
    BY DEF NoCredentialForgotten
  <2>1. /\ loop \in LoopRecords /\ loop.lasted \in Nat /\ timer \in Nat /\ clock \in Nat
        /\ schedule[id].next \in Nat /\ table[id].due \in Nat
    BY LoopRecordIs, NeverIsLast DEF AutoInv, AutoTypes, AtRest, LoopRecords, Entries, Instants
  <2>2. ~Marked(id) /\ ~InHand(id)
    BY <2>1 DEF AtRest, AutoInv, MarksAreSeen, BeforeDraining, Marked, InHand, LoopShape
  <2>3. OnSchedule(id)
    BY <2>2 DEF AutoInv, NobodyForgotten, Wanted
  <2>4. schedule[id].next # Never
    BY <2>3 DEF OnSchedule, InTime
  <2>5. timer <= schedule[id].next + loop.lasted \/ timer <= clock + loop.lasted
    BY <2>4 DEF AutoInv, TimerCovers, AtRest
  <2>6. Max({schedule[id].next, clock}) = IF schedule[id].next > clock THEN schedule[id].next ELSE clock
    BY <2>1, MaxOfTwo
  <2>7. Max({table[id].due, clock}) = IF table[id].due > clock THEN table[id].due ELSE clock
    BY <2>1, MaxOfTwo
  <2>8. schedule[id] # Unscheduled
    BY <2>4 DEF Unscheduled
  <2>9. timer <= Max({schedule[id].next, clock}) + loop.lasted
    BY <2>1, <2>5, <2>6
  <2>10. schedule[id].next <= Max({table[id].due, clock}) \/ Committed(schedule[id], table[id].version)
    BY <2>1, <2>3, <2>7 DEF OnSchedule, InTime
  <2> QED
    BY <2>8, <2>9, <2>10
<1> QED
  BY <1>1, AutoInitInv, AutoNextKeeps, PTL DEF AutoSpec
===============================================================================
