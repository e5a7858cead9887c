# Verification of CLIProxyAPIHome

CLIProxyAPIHome ("Home") is the control plane of a fleet of CLIProxyAPI nodes
("CPA"). Several Home processes share one SQL database (PostgreSQL, or SQLite for a
single Home). CPA nodes connect over mTLS, subscribe for configuration, ask Home which
credential to use for each request, and report usage. All shared state is in the
database; each Home adds in-memory caches, connection registries and background loops.

This directory holds TLA+ models of that state and of everything that changes it, the TLC
configurations that check them on small instances, and proofs checked by TLAPS.
`PROJECT.json` lists the components, maps every definition to the lines it models, and
names for each hazard of the code the properties that watch it.

## The system's parts

| part | state | operations | what makes it hard | what makes it correct |
|---|---|---|---|---|
| Home incarnations (`internal/cluster/home_incarnation.go`) | one row per process start, with state and last heartbeat | register, heartbeat, retire, expire, fence | crashes, late heartbeats, restarts on the same address | an incarnation that is out never acts again |
| CPA memberships (`membership.go`, `lifecycle_config.go`) | one membership per certificate fingerprint, its lifetime (`connected_at`), owner and participants; revision of the safety durations | subscribe, take over, classify a connection, record a participation, refresh liveness, change the durations | transactions of several Homes, values read in one transaction and used in another | one owner per lifetime, durations fixed while a lifetime is open |
| Quiescence and reclaim (`quiescence.go`) | cancellation revision, one row per Home that owes an acknowledgement | begin, acknowledge, complete, recover | a Home that dies between two of these | slots are reclaimed only when nobody can use them, and eventually |
| Strict limiter (`concurrency_*.go`) | policies, activation gate, counters per CPA and key | patch, import, admit, release | lost replies, repeated and reordered releases, mixed versions during a rollout | no grant above a limit, no running request uncounted, no slot leaked by a closed lifetime |
| Fingerprint registry (`internal/respserver`) | tracked connections and running handlers per lifetime | accept, attach, begin handler, fence | fences racing new connections and handlers | an acknowledgement means nothing of the lifetime runs here |
| Coordinator (`coordinator.go`) | cluster nodes, master gate, local lease | heartbeat and elect, lease expiry, callbacks | silent masters, timers and callbacks that come late | one master per term, and every process comes to agree with it |
| Rebalancing (`rebalance*.go`) | plans, clients | reconcile, plan, instruct, claim, report | plans against takeovers, elections and crashes | one plan per CPA, bounded moves, no half swap |
| In-flight snapshots (`in_flight_*.go`) | staged parts, published snapshot, views for pages | ingest, publish, reject, page | parts out of order, repeated, mixed with newer ones | only complete snapshots are published, revisions only grow |
| Refresh (`refresh.go`, `codex_refresh_journal.go`) | leases, journal | claim, refresh, finalize, merge | a crash after the provider consumed the grant | a grant is used once, operators are not overruled |
| Refresh loop (`auto_refresh_loop.go`) | heap of due times, dirty set, timer, jobs | reschedule, drain, pop, refresh | three locks, lost wake-ups | no credential is forgotten |
| Runtime auth cache (`runtime.go`, `events.go`) | index and full auth by version | load, apply event, save | events against loads | no older version replaces a newer one |
| OAuth sessions (`oauth_sessions.go`, `management/oauth*.go`) | one row per login | callback, device flow, poll, cancel | repeated callbacks, expiry under way | one outcome per login |
| Model registry (`registry/model_registry.go`) | reference counts and marks per model | register, replace, unregister, mark | adjustments by differences | counts are the sums over the clients |
| Quota collection (`quota_*.go`, `quota/collector.go`) | one snapshot row per credential with a probe lease | claim, probe, observe passively | collectors that die with the lease | activity is consumed by the probe that claimed it |
| Key-value store (`kv_store.go`) | rows with an expiry | get, set, delete, expire, count up, purge | expired rows deleted lazily against new values | reads see the last write |
| Billing (`usage.go`, `billing*.go`, `user_period_limit.go`) | usage, charges, balances, windows, price rules | ingest, charge, admit, reset, import prices | repeated deliveries, imports in two steps | each usage charged once, for every token once |
| Cooldown (`cliproxy/auth/result.go`, `cooldown.go`) | availability of a credential, shared row and copies | report a result, save, reload, reset, switch | late saves against resets | a reset is not undone by an older save |

The other parts are listed in `PROJECT.json` with the reason they are left out.

## How the parts interact

A CPA opens a subscription connection to one Home and sends `SUBSCRIBE config`. Home
creates the membership (or takes it over from another Home) in one transaction and
remembers its lifetime. Data connections that arrive later at the owner are classified:
they read the lifetime and join it in a second transaction. A dispatch command on such a
connection is admitted against the limits by a transaction that pins the lifetime and the
Home row, and the grant goes back on the same socket. The CPA reports finished requests
with cumulative release sequences. When the CPA falls silent, or a grant cannot be
delivered, some Home begins the cancellation of the lifetime: it writes which Homes owe an
acknowledgement and appends a `cpa-fence` event. Each Home that reads the event fences the
lifetime in its registry, closes its connections, waits until they and their handlers are
gone, acknowledges, and tries to complete; the last one closes the membership and deletes
its counters. Homes that died are expired and, after the reclaim grace, fenced by the
others, which then count as quiet.

The Homes elect a master through the gate row. Only the master runs the refresh loop, and
only the leader of the gate's term plans moves of CPA nodes; the planner's transaction
compares the term again before it commits. Credentials written by any Home reach the
caches of the others through the event log. Usage reports of the CPA nodes are charged
by the price rules and checked against credits and windows when the next request is
dispatched.

## Modules

| module | models | proofs |
|---|---|---|
| `HomeIncarnation` | `home_incarnation.go`, the home part of `quiescence.go` | (in those of the modules that extend it) |
| `Membership` (extends it) | `membership.go`, `quiescence.go`, `lifecycle_config.go` | `ConcurrencyLimiterProofs` |
| `ConcurrencyLimiter` (extends `Membership`) | `concurrency_*.go`; the specification that composes the three | `ConcurrencyLimiterProofs` |
| `LifecycleCleanup` (extends `ConcurrencyLimiter`) | the cleanup loop of `coordinator.go`, `recoverCPAFences` and `handleCPAFence` of `cmd/home/cluster_event_handler.go` | (liveness only) |
| `FingerprintRegistry` (extends `Membership`) | `internal/respserver/fingerprint_registry.go`, the connection loop of `server.go`, `cmd/home/cluster_event_handler.go` | `FingerprintRegistryProofs` |
| `Leadership` | abstract: what the master gate promises to whoever decides under it | |
| `Coordinator` (implements it) | `coordinator.go`, the lease part of `refresh.go` | `CoordinatorProofs` |
| `Rebalance` (is built on it) | `rebalance.go`, `rebalance_swap.go`, `rebalance_gate.go` | `RebalanceProofs` |
| `Refresh` | `refresh.go`, `auth/codex`, the journal | `CredentialProofs` |
| `AutoRefresh` | `cliproxy/auth/auto_refresh_loop.go`, `manager.go` | `CredentialProofs` |
| `AuthCache` | `runtime.go`, `events.go` | `CredentialProofs` |
| `OAuthSessions` | `oauth_sessions.go`, `management/oauth*.go` | `CredentialProofs` |
| `ModelRegistry` | `registry/model_registry.go` | `CredentialProofs` |
| `QuotaProbe` | `quota_snapshots.go`, `quota_ingestion.go`, `quota/collector.go` | `CredentialProofs` |
| `InFlight` | `in_flight_ingest.go`, `in_flight_cleanup.go`, `in_flight_read.go` | `StoreProofs` |
| `SnapshotCursor` | `in_flight_cursor.go` | `StoreProofs` |
| `KeyValueStore` | `kv_store.go` | `StoreProofs` |
| `Billing` | `usage.go`, `billing.go`, `user_period_limit.go`, `respserver/push/usage.go` | `StoreProofs` |
| `PriceRules` | `billing.go`, `billing_import.go`, `billing_match.go` | `StoreProofs` |
| `ChargeSplit` | the split of tokens over prices in `billing.go`, `billing_dimensions.go` | `StoreProofs` |
| `Cooldown` | `cliproxy/auth/result.go`, `cooldown.go`, `manager.go`, `home/auth_apply.go`, `home/hot_reload.go` | `CooldownProofs` |
| `SumLemmas` | lemmas about `SumFunctionOnSet` that `ConcurrencyLimiterProofs`, `StoreProofs` and `CredentialProofs` use | |
| `MCConcurrencyLimiter`, `MCLifecycleCleanup`, `MCFingerprintRegistry`, `MCRebalance`, `MCCooldown`, `MCComponents` | symmetry sets, constraints and bounds for TLC | |

Every variable that names a table stands for its rows; every action that names a
repository function is that function's transaction, with the guard its checks and early
returns give and every write it makes. Operators introduced as "Faulty variant" are not
part of any specification: they are plausible mistakes that show that the properties can
fail.

`Coordinator` implements `Leadership`: the refinement mapping takes the gate row's term,
its master in its elected incarnation, and whether the lease still runs
(`Gate` in `Coordinator`, property `GateIsLeadership`). `Rebalance` instead EXTENDS `Leadership`, so what is shown of the
planner uses of the election only what `Coordinator` was shown to provide.

### What is abstracted

* Transactions are atomic where the code holds row locks for it: commands pin the
  membership and home rows `FOR KEY SHARE`, transitions take them `FOR UPDATE`, policy
  changes hold the activation gate. Steps that the code splits over several transactions,
  or that read before they lock, are split here too (classification and joining,
  acknowledging and completing, preview and apply, the lazy deletion of expired values,
  claiming and finalizing a refresh, the commit of a result and its adoption in memory).
  `KeyValueStore`, `Billing` and `AuthCache` have the row locks themselves.
* Time matters only through comparisons. Home and CPA heartbeats are ages (`Fresh`,
  `Stale`, for Homes `Dead` past the grace) and ageing is free, so a row may age while its
  process runs. In `Coordinator` and `Rebalance` one `Tick` moves all ages, leases and
  timers; a Home that is not stalled beats once per tick and its transaction is shorter
  than a tick. `QuotaProbe`, `Billing`, `PriceRules`, `KeyValueStore`, `AutoRefresh` and
  `Cooldown` have a clock; `Refresh` has none: a lease or a backoff may run out at any step.
* `connected_at` is strictly increasing per fingerprint in the code and is a counter here.
  The node ID comes from the certificate, so its comparison in a takeover never fails.
* `cpa` is what the CPA process itself knows. It is external: a CPA may finish any request
  it holds, send any sequence it has reached any number of times, and drops its work when its
  membership is closed or it subscribes afresh (that is what the reclaim grace and
  `cpa-cancel-bound` are for).
* In `FingerprintRegistry` a connection is the pair of its `TrackedConnection` and its
  `HandleConn` goroutine. `Close` is two steps, socket and entry, because another fence can
  look in between. Every use of the database there may fail. Home rows do not age there:
  reclaim by the grace is the subject of `ConcurrencyLimiter`. Fences of different lifetimes
  at one Home run independently, although one event watcher and one cleanup loop run them in
  turn.
* In `Rebalance` the latency reports appear as the choice of a pair, and finished plans are
  not purged. In `Refresh` a worker is its lease, and the foreground retry and the background
  finalizer are one phase. In `AuthCache` an error of the event handler, which shuts the Home
  down, is left out. In `ChargeSplit` prices are whole units per token: rounding, price
  expressions and the effort multiplier are left out.
* Smaller simplifications. `Refresh`: a management edit reads and writes in one step, and
  callers that share an exchange stay with it when its owner retries. `AutoRefresh`: a full
  record that is not to be scheduled passes for none, and checks at a fixed interval are left
  out. `AuthCache` starts with an empty table. `ModelRegistry`: the registry calls of one
  reconciliation are one step. `QuotaProbe`: a new collector version, which moves a pending
  probe when it claims it, is left out. `Rebalance`: a CPA node whose heartbeat was late is not
  heard again in the same lifetime. `FingerprintRegistry`: the event watcher and the cleanup loop
  do not fence one lifetime at once. `PriceRules`: patches of the fields that identify a rule are
  left out. `ChargeSplit`: an explicit price of 0 is not told from an unset one.
* In `KeyValueStore` the purge deletes one row at a time, and a command that creates a key fails
  at its end where the code waits for another one that has inserted the key and not committed.
  `NoLockCycle` therefore speaks of the locks of MSET and DEL on rows they find, neither of those
  waits nor of the locks of a purge of several rows.
* Validation of durations and names, JSON, formatting and logging are left out everywhere.

## Runs

| run | instance | properties |
|---|---|---|
| `membership` | 1 CPA through 2 lifetimes with 2 Homes, 2 revisions of the durations, 1 key, up to 2 grants, limits 0 and 1; 2 CPAs in their first lifetimes at one Home | `TypeOK`, `CountersCoverRunningWork`, `SlotAccounting`, `ClosedHoldsNoSlot`, `GrantsStayWithinLimits`, `LifecycleRevisionPinned`, `QuiescenceSetComplete`, `OnlyOwnerParticipates`, `ReclaimOnlyWhenQuiet`, `NothingRevives` |
| `cancellation` | 1 CPA, 2 Homes and their cleanup rounds, 2 lifetimes, no policies, fair loops | `CancellationEnds` |
| `rollout` | SQLite, 2 Homes old or new, 1 CPA with protocol 0 or 1, 2 credentials | `GateCountsActivePolicies`, `NobodyUnawareOfLimits` |
| `fence` | 1 Home, 1 CPA, 2 connections, 2 lifetimes, at most 2 fences at a time | `AcknowledgedIsDrained`, `NoGrantAfterReclaim` |
| `fence_liveness` | 1 Home, 1 CPA, 2 connections, 1 lifetime, fair goroutines | `FenceEnds` |
| `fence_leak` | as `fence` | violates `ClosedIsUntracked`: see Findings |
| `election` | 2 Homes, 2 starts each, 2 terms, timeout 2 | `MastersAgree`, `GateIsLeadership`, `ElectionSettles` |
| `moves` | 2 CPA nodes, 2 Homes that both lead in turn, 2 plans, 2 lifetimes; with one plan, a lost Home or a silent CPA | `NoHalfSwapOffered`, `DecisionsStand` |
| `move_rounds` | 5 CPA nodes on one of 3 Homes, 3 plans, 2 may be active | `PlansAreBounded` |
| `rebalance_liveness` | 2 CPA nodes, 2 Homes, 1 plan, 2 terms, fair planner | `PlansEnd` |
| `cooldown` | 2 Homes, 2 reports, 1 reset or switch, 1 database error, clock to 2 | `SwitchFencesSaves`, `QuotaWindowsHold` |
| `components` | twelve components that share no state; each behaviour is one of the component in `focus` | `GrantSubmittedOnce`, `OperatorsWin`, `NoCredentialForgotten`, `CacheFollowsTable`, `RegistryConsistent`, `SnapshotsAreWhole`, `PagesAreKept`, `ReadsWhatWasWritten`, `NoLockCycle`, `AccountsAreExact`, `MostSpecificRuleWins`, `ChargeIsExact`, `LoginSettlesOnce`, `ProbesConserved`, `ImportsAreExact` |

What they show:

* `membership`: whatever two Homes and a CPA node do, a lifetime keeps its
  durations, is used by its owner and participants only, is closed when all of them are
  quiet or past the grace, and leaves no slot behind; while it lives the counters cover what
  runs, and no admission passes a limit, also when two nodes ask for the last slot. Two Homes
  are needed for a takeover, a crash and a recovery by the other; a second lifetime lets late
  transactions of the first meet it; a second grant lets a cumulative release cover more than
  one request, and one more than the limit be asked for. `DurationsOrPolicies` lets the
  durations and the participants change as long as no policy was set; `CompetingNodes` keeps
  two nodes to what they compete for.
* `cancellation`: the rounds of both Homes are taken apart into their transactions and the
  fences between them, so that a crash, a takeover or another Home's round may come anywhere.
  `NobodyJoins` leaves out participants: an owner and the Home it was taken over from already
  make a cancellation that two Homes owe.
* `rollout`: two credentials make the gate count to two and let an import touch both, so an
  inexact count shows. `RolloutBound` leaves out data connections and Homes that
  are past the grace, which only cancellations look at.
* `fence`: two connections are the subscription and one data connection, or two that fence
  at once. `FenceBound` limits the fences under way to two.
* `election`: two starts give a Home that comes back as younger than the other; two terms
  are a handover, and the guards end the starts and the terms after that. Timeout 2 is the
  smallest that distinguishes a late heartbeat from a lost one.
* `moves`: two terms let a transaction of the first leader meet the second; two plans are a
  swap, or a move and its successor. `FailuresOfOnePlan` lets a Home be lost or a CPA node fall
  silent, one at a time, at every step as long as there is one plan and nobody has reconnected.
  `move_rounds` has one term and needs five nodes for three moves off one Home, of which
  two may be active; `FirstRounds` ends it when the first of
  the moves ends. That plans of earlier leaders count as well is proved (`PlansStayBounded`).
* `rebalance_liveness`: two terms let a leader die with a plan that the next one finds;
  `OneSilentInSecondTerm` then leaves one CPA node silent at most.
* `cooldown`: two reports, one of them saved late, meet one operation of an operator.
  Longer sequences are beyond the run; `CooldownProofs` covers them.
  After a database error `ErrorsAreEarly` follows
  the first tick only.
* `components` keeps the other components where they start (`Aside`, `FocusView`), so it is
  the sum and not the product of twelve state spaces. The bounds are in `Components.cfg`:
  two workers and one fault for a refresh, of one credential or of two that hold the same
  grant; two flows and one poll for a login; three clients for the registry; two
  collectors; two lifetimes, revisions and parts for snapshots; two keys and clients; two
  executions with two deliveries each for billing; of two credentials with the same grant
  operators only restore the files (`RelevantEdits`), and of two keys one is used after the
  clock has moved (`OneKeyExpires`); two rounds of each collector; six price identities, two of them
  imported, and two edits; token counts from 0 to 2.

`Max...` constants only end the state space: they appear in guards and never in the code's
decisions. Deadlock is not checked where these bounds stop the system.

### Fairness

* `cancellation`: weak fairness of what the code repeats: the steps of every running Home's
  cleanup round (`Coordinator.runLifecycleCleanupLoop`), its heartbeat loop until it is
  refused, and time passing for a process that no longer beats. There is none for the end of a
  fence: `FenceFingerprint` waits without a timeout, and what it waits for may never come (see
  `fence_leak`). That no fence hangs for ever is the condition `NoFenceHangs` of
  `CancellationEnds`; without it TLC finds the cancellation that a living Home owes for ever.
  `FenceEnds` is where the condition comes from: it shows that a fence ends unless the
  connection of `ClosedIsUntracked` is what it waits for. Nothing is assumed of subscriptions,
  crashes or CPA nodes.
* `fence_liveness`: goroutines run, and a command ends once its context is canceled.
* `election`: time passes, and every Home's heartbeat, its setting of the belief, its
  timers, the expiries they call and the callbacks proceed. That nothing fails any more is
  a condition of `ElectionSettles` (`Stabilise` is a step, not an assumption).
* `rebalance_liveness`: the planner's loop runs, and time passes again and again although
  transactions may be open in between (strong fairness of `Tick`, which waits for them).

## Findings

`fence_leak`: `AttachSubscriptionLifetime` enters a connection under its new lifetime
without looking whether it was closed. If a fence of the old lifetime closes the connection
after its takeover committed (the old subscription's heartbeat fails as soon as it does),
the connection is added to the new entry after its only `Close`, and nothing removes it.
The comment of `Close` says it "removes it from its lifetime entry". A fence of that
lifetime would then wait for ever. `FenceEnds` is therefore stated with that exception.

Two more places where the code does something else than `docs/management/api.md` says. They
have no run of their own; the models do what the code does, and the properties are stated
with the exception:

* Quota, probes: "usage received during the probe remains pending" (api.md:3102), and a result
  is "ignored after lease loss" (`collector.go:404`). The lease belongs to the process: its
  scheduled round and a round on demand share one owner. When a probe on demand outlives its
  lease, the scheduled round of the same process may claim the row again, and the result of the
  first passes the owner check (`quota_snapshots.go:331-334`, `903`) and consumes the watermark
  of the second (`385-389`). `ProbesConserved` says what is left: activity is consumed while the
  scheduled probe that claimed it is still under way, by its own process, and once.
* Quota, observations: "Older observations cannot replace a newer snapshot or window"
  (api.md:2928, on passive observations). An active probe is not compared with the observation it replaces unless that
  lies in the future (`quota_snapshots.go:336-339`), so it replaces a passive one that is later
  than its own.

Observations made while modelling that contradict no statement we know of:

* Cooldown: a success whose reconciliation succeeded in the database, but which ends after
  a fence whose write failed, deletes the mark of that fence, and the retry at the next
  reload does not happen; an older queued save can then restore the cooldown. It needs a
  database error, so `SwitchFencesSaves` is stated for executions without one. A 5xx during
  an open quota window sets `NextRetryAfter` to one minute, which the selector looks at first.
  What "persisted quota is authoritative" (the comments of `MergePersistedModelState`) covers is
  an open window and a reset, not a success: when a success on another Home has cleared the row,
  a copy with a later transient failure keeps its old quota window in a merge, and its next save
  brings the window back. `QuotaWindowsHold` is therefore about what an operator's reset or a
  switch has closed.
* Price rules: within one level of the match, the order of the candidates is looked at before
  the length of the pattern. This is the documented order: "Lookup tries the executed `model`
  and then the client-requested `alias` at each specificity level", the second of which is
  "exact provider and the longest matching model pattern" (api.md:1686). The comment of
  `billingFindPrice`, "Specificity wins over candidate order" (`billing_match.go:75`), goes on to
  say that it means the levels, and the one at `:122`, "The longest pattern is the most
  specific", is about the patterns that match one candidate. Whoever reads either of them across
  candidates and patterns expects another rule than the code and the document choose.
* Operators: a credential that is enabled or disabled (`PatchAuthFileStatus`) is read and written
  in two transactions; when the row has moved on in between, the write is dropped
  (`repository.go:214`) and the request is answered as done.
* Model registry: a client that lists a model twice counts twice.
* Billing: when the owner of a key is deleted during a request, the delivery of its usage
  fails for ever.
* Refresh loop: `resetTimer` waits from the start of the round it ends.
* OAuth: sessions in the state error are never deleted.
* `FenceHomeIncarnation` and `BeginFingerprintCancellation` have no callers.

## Proofs

The theorems hold for every value of the constants that satisfies the named assumptions of
the modules: finite sets of Homes, CPA nodes, credentials and so on, natural bounds,
protocols 0 and 1, `MaxActive >= 2` (room for both legs of a swap), positive lease and
window lengths. None of them bounds the number of processes, and no proof uses a value of a
bound. Each is `Spec => []Inv` or `Spec => [][A]_vars` by an inductive invariant that
was first checked by TLC: the initial states have it, every action keeps it (one step of the
proof per action), and it implies the property.

### Membership and limits

`TypeInv` (in `ConcurrencyLimiterProofs`) is what the other invariants of this specification
build on.

| theorem | property | why the property is not inductive, and what is added |
|---|---|---|
| `TypeCorrect` | `TypeOK` | an open membership has an owner (`OwnerKnown`); the counters stay naturals although releases subtract |
| `RunningWorkIsCounted`, `NoSlotLeaks`, `SlotsAreAccounted` | `CountersCoverRunningWork`, `ClosedHoldsNoSlot`, `SlotAccounting` | a release subtracts the increase of a sequence, so grants held plus finished must not exceed slots counted plus released; a fresh subscription resets the CPA only, so a closed membership must have no counter (`SlotInv`) |
| `LimitsHold` | `GrantsStayWithinLimits` | an action property: the admission compares sums over all CPA nodes, which grow by exactly one (`SumLemmas`) |
| `RolloutSafe` | `NobodyUnawareOfLimits` | registration, subscription and activation re-establish it, everything else shrinks the active rows or leaves the policies alone |
| `GateIsExact` | `GateCountsActivePolicies` | an import activates and clears any number of policies in one step, and the gate moves by the difference of two cardinalities |
| `OwnersParticipate` | `OnlyOwnerParticipates` | what a classification has read is the owner of its lifetime, or the lifetime is over (`ClassifiedByOwner`) |
| `CancellationsWaitForAll`, `SlotsAreReclaimedWhenQuiet` | `QuiescenceSetComplete`, `ReclaimOnlyWhenQuiet` | cancellation rows are never ahead of the membership, a fenced row belongs to an incarnation that is gone, and every canceling lifetime has its rows (`QuiescenceInv`) |
| `RevisionStaysPinned`, `EndedStaysEnded` | `LifecycleRevisionPinned`, `NothingRevives` | from `TypeInv`, action by action |

### Connections

`AcknowledgedStaysDrained` (`AcknowledgedIsDrained`) and `ReclaimedIsNotGranted`
(`NoGrantAfterReclaim`), by `RegistryInv` in `FingerprintRegistryProofs`. An acknowledged
lifetime stays fenced at its Home; a connection is in its lifetime's entry or its socket has
been closed; a connection that carries an unanswered grant is in the entry of its lifetime,
and its socket is closed once the membership is; a running fence still knows every connection
it must close.

### Election and rebalancing

* `GateImplementsLeadership` (`GateIsLeadership`): `Coordinator` implements `Leadership`. By
  `GateInv`, the flagged row is the gate's, in the incarnation it was elected in, and what is
  left of the lease is what is left of that row's liveness; so the election can only keep
  the master with a running lease or begin a new term.
* `RenewalsHold`: an expiry called before a renewal never ends the renewed belief (`TimerInv`).
* `ElectionAgrees` (`MastersAgree`): adds `NoticeInv`, which orders the callbacks of a process:
  at most one holds the mutex, and whatever a callback is about to do wrong, another one that
  puts it right is still to come.
* `PlansStayBounded`, `SwapsStayWhole`, `DecisionsAreKept` (`PlansAreBounded`,
  `NoHalfSwapOffered`, `DecisionsStand`), by `RebalanceInv`: what holds of the committed plans
  also holds of the working set of the open transaction, because rounds build it step
  by step while the tables change underneath; `TxInv` says what the working set may differ in.

### Credentials

| theorem | property | the inductive invariant |
|---|---|---|
| `GrantsAreSpentOnce`, `AnswersAreFinal`, `OperatorChangesStay` | `GrantSubmittedOnce`, `OperatorsWin` | `RefreshInv`: whoever may submit a grant has it claimed in the journal and has not submitted it; a grant that was submitted is in the journal (or, before the first Home started, fenced in its row); a row whose lease is still the worker's holds the tokens the refresh began with, unless the operator replaced the access token |
| `EveryoneIsRefreshed` | `NoCredentialForgotten` | `AutoInv`: a credential that is to be refreshed is scheduled in time, marked dirty, or in the loop's hands; what the loop has read of the table is current or the credential will be marked; a mark is seen by a wake-up or by a loop before its drain; a resting loop's timer covers the schedule |
| `CacheFollows`, `DeletedStaysDeleted` | `CacheFollowsTable` | `AuthCacheInv`: event ids are in the order of versions and complete up to what was passed; the cache, and whatever an operation is about to put there, is a version that had an event, and an absence has a deletion |
| `OneOutcome` | `LoginSettlesOnce` | `SessionInv`: credentials are stored together with the completion of the row, and a cancelled row is a failed one |
| `OnlyProbesConsume` | `ProbesConserved` | `QuotaInv`: the watermark that the row holds is that of a scheduled probe of the lease's owner, which is under way unless the process died or the claim was forced; a process dies with both rounds; headers are no later than the clock; a row nobody has written schedules nothing |
| `RegistryStaysConsistent` | `RegistryConsistent` | `RegistryInv`: counts and provider counts are sums over the clients; marks are single and of clients that list the model |

### Cooldowns

`WindowsHold` (`QuotaWindowsHold`) and `FencesHold` (`SwitchFencesSaves`) in `CooldownProofs`, by
`CooldownInv`. Versions name states of the shared row; copies, snapshots that are being saved and
outcomes that are not adopted yet may lag behind it and, at one version, differ from it. The
invariant says in what they may not:

* a copy that is not a projection, and a snapshot, agrees with a row of its version in the end and
  the level of an open window, and an outcome in all of the quota;
* what a clearing closed (`quotaReset`, a history variable) carries its time in the row and in every
  copy, snapshot, merge and outcome of that version, so the merge takes it for a reset;
* after a save, what the Home or one of its operations still has of the version that was saved
  passes for the new version (`SavedInv`, `LateInv`): `FinishSave` only replaces the number;
* without database errors a snapshot that its Home fenced (`fenced`, history) is older than the row,
  or the fence's transaction, which always advances the version, is still to come (`FencedInv`),
  since a fence does not pass over a credential with a save under way (`SelectClear`).

The steps that leave the row alone are proved by one lemma (`HomeStep`), those that give it a new
version by another (`RowStep`, with `NewerRow`: what is known of a version says nothing of a later
one). `2^n \in Nat`, which the backoff needs, is beyond the SMT solver and is shown by counting
subsets (`PowerOfTwo`).

### Stores and accounts

| theorem | property | the inductive invariant |
|---|---|---|
| `AccountsStayExact`, `WindowsRunTheirTime` | `AccountsAreExact` | `BillingInv`: a usage under its lock is new, is stored once, and the credits are the opening balance plus the ledger |
| `ChargesAreExact` | `ChargeIsExact` | `SplitInv`: the charge is all of the record's buckets; the rest is that the buckets, after every clamp, add up to the totals |
| `ImportsStayExact` | `ImportsAreExact` | `PriceInv`: a rule seen by a preview still says what it said or has a later revision; a writer holds a preview in time; the record of an import outlives its preview |
| `PricesAreMostSpecific` | `MostSpecificRuleWins` | none but the types of `PriceInv`: `FoundWins` holds of any table, candidates, tier and context. A loop that returns at its first hit is a least element (`FirstHit`, `PositionIs`, `LongestKey`, from `LeastElement`); a rule is selected on its own level and there for the candidates it matches (`RuleOnLevel`), and two patterns of one length do not match the same model (`OneKeyPerLength`) |
| `SnapshotsStayWhole`, `SnapshotsMoveForward` | `SnapshotsAreWhole` | `InFlightInv`: counts and bytes are those of the staged rows, which are of one revision with one part per index; the published snapshot is not ahead of its attempt |
| `PagesStayWhole` | `PagesAreKept` | `CursorInv`: a view is whole until it has expired and while it is read; without its header it has no rows |
| `KeysReadAsWritten`, `LocksAreOrdered`, `UpdatesAreKept` | `ReadsWhatWasWritten`, `NoLockCycle` | `KVInv`: a row is what was committed, unless that expired and was deleted; a command that holds a lock has only later keys to visit. `RowsHeld`: a command holds the rows it has found, and has something to create for those it has not |

`WindowNotRestarted`, `PublishedMovesForward`, `SettledStaysSettled`, `NoResurrection`,
`RenewalOutlivesOlderExpiry`, `AnswersStand` (what the journal of grants knows it does not
forget), `RowsHeldStill` (no update of the key-value store is lost) and the election's type
invariant are proved and are not properties of a run.

`SumLemmas` derives what the proofs need of `SumFunctionOnSet` (a sum takes any element off,
agrees where the functions agree, changes by the difference, is natural for naturals, bounds
and counts) from its definition as a fold over finite sets.

### Only model-checked

* Liveness (`CancellationEnds`, `FenceEnds`, `ElectionSettles`, `PlansEnd`): fairness and
  `ENABLED` are beyond the prover.

## Plan

1. Model the choice among credentials (weighted round robin, priorities, stickiness) as a pure
   algorithm against a reference, and the session affinity store on the key-value store.
2. The forwarding of a refresh to the master, on `Leadership`.
3. Plugin tasks.

## Not modelled

The management and user APIs decode requests and render answers around repository calls; the
multiplexer and the RESP parser handle bytes; configuration and the model catalogue are
file formats and HTTP clients, and what a provider login leaves behind is in `OAuthSessions`.
Of billing, the reports, tier diagnostics, price expressions and catalogue matching are left
out; of quota collection, the requests to the providers and the read models; plugin tasks
are not modelled yet. `PROJECT.json` says for every component what is and what is not.
