------------------------------- MODULE Cooldown -------------------------------
(***************************************************************************)
(* Availability of one credential for one model, shared by several Homes   *)
(* (cliproxy/auth: result.go, cooldown.go, manager.go; home/auth_apply.go, *)
(* home/hot_reload.go).                                                    *)
(*                                                                         *)
(* Each Home keeps a copy of the credential in memory and schedules with   *)
(* it.  Results of requests change the shared row in a transaction (quota  *)
(* failures, unauthorized, successes that clear something) or only the     *)
(* copy, which a background worker saves later.  Operators reset quotas    *)
(* and switch cooling off and on, one Home after the other.  In memory     *)
(* steps happen under the manager's mutex; between the transaction and the *)
(* adoption of its outcome anything may happen.                            *)
(***************************************************************************)
EXTENDS Naturals, FiniteSets

CONSTANTS
    CoolHomes,      \* Homes
    CoolWorkers,    \* <<home, number>>: operations a Home runs at the same time
    ResultKinds,    \* outcomes of requests that are reported
    HintDelays,     \* delays a provider asks for with a quota failure, 0: none
    MaxBackoff,     \* quotaBackoffMax, in ticks
    MaxCoolTime,    \* bound: the clock
    MaxReports,     \* bound: results
    MaxControls,    \* bound: resets and configuration changes
    MaxErrors       \* bound: database errors

ASSUME CooldownAssumption ==
    /\ CoolWorkers \subseteq CoolHomes \X (Nat \ {0}) /\ MaxBackoff \in Nat \ {0}
    /\ ResultKinds \subseteq {"ok", "quota", "transient", "auth"} /\ HintDelays \subseteq Nat
    /\ MaxCoolTime \in Nat /\ MaxReports \in Nat /\ MaxControls \in Nat /\ MaxErrors \in Nat

VARIABLES
    coolNow,     \* the clock
    sharedRow,   \* the persisted credential: version and model state
    localCopy,   \* Manager.auths of each Home: version, model state, projection or full copy
    cooling,     \* ~DisableCooling of each Home
    staged,      \* resultPersistPending and resultPersistActive
    saving,      \* the snapshot the background worker of each Home is saving
    fencePending,\* cooldownFencePending
    coolWork,    \* the operation of each worker, and of each Home's applier
    coolBudget,  \* results, control operations and database errors so far
    quotaReset   \* history: the quota window of the row was closed by a clearing, none was opened since

coolVars == <<coolNow, sharedRow, localCopy, cooling, staged, saving, fencePending, coolWork, coolBudget,
              quotaReset>>

CoolNone == [kind |-> "none"]
(* The applier of a Home holds stateApplyMu while it reloads or changes the configuration. *)
Applier(h) == <<h, 0>>
CoolActors == CoolWorkers \cup {Applier(h) : h \in CoolHomes}
(* A model state without entry, and after resetModelState.  0 is the zero time. *)
Clean(at) == [err |-> "none", quota |-> "none", retry |-> 0, recover |-> 0, level |-> 0, resetAt |-> 0, updated |-> at]

CooldownInit ==
    /\ coolNow = 1
    /\ sharedRow = [version |-> 1, state |-> Clean(0)]
    /\ localCopy = [h \in CoolHomes |-> [version |-> 1, state |-> Clean(0), projection |-> TRUE]]
    /\ cooling = [h \in CoolHomes |-> TRUE]
    /\ staged = [h \in CoolHomes |-> FALSE]
    /\ saving = [h \in CoolHomes |-> CoolNone]
    /\ fencePending = [h \in CoolHomes |-> FALSE]
    /\ coolWork = [w \in CoolActors |-> CoolNone]
    /\ coolBudget = [reports |-> 0, controls |-> 0, errors |-> 0]
    /\ quotaReset = FALSE

Later(a, b) == IF a > b THEN a ELSE b

-------------------------------------------------------------------------------
(* What a result does to a model state: applyResultTransition. *)

(* nextQuotaCooldown: the delay and the level after it. *)
NextQuotaCooldown(level) ==
    IF 2^level >= MaxBackoff THEN [delay |-> MaxBackoff, level |-> level]
    ELSE [delay |-> 2^level, level |-> level + 1]

(* Faulty variant: every failure starts a window of its own. *)
QuotaAfterEveryFailure(s, at, hint) ==
    LET next == NextQuotaCooldown(s.level)
    IN [until |-> Later(at + next.delay, hint), level |-> next.level]

(* quotaCooldownAfterFailure: hint is the provider's reset or retry time. *)
QuotaCooldownAfterFailure(s, at, hint) ==
    LET open == s.recover > at
        next == NextQuotaCooldown(s.level)
    IN [until |-> Later(IF open THEN s.recover ELSE at + next.delay, hint),
        level |-> IF open THEN s.level ELSE next.level]

(* updateAggregatedAvailability: a retry time that has passed is dropped. *)
Expire(s, at) == IF s.retry <= at THEN [s EXCEPT !.retry = 0] ELSE s

AfterQuotaFailure(s, at, hint, cool) ==
    LET next == QuotaCooldownAfterFailure(s, at, hint)
    IN IF cool
       THEN [err |-> "quota", quota |-> "exceeded", retry |-> next.until, recover |-> next.until,
             level |-> next.level, resetAt |-> 0, updated |-> at]
       ELSE [err |-> "quota", quota |-> "lifted", retry |-> 0, recover |-> 0,
             level |-> s.level, resetAt |-> 0, updated |-> at]

ResultTransition(s, r) ==
    CASE r.kind = "ok"        -> Clean(r.at)
      [] r.kind = "quota"     -> AfterQuotaFailure(s, r.at, r.hint, r.cool)
      [] r.kind = "transient" -> [s EXCEPT !.err = "transient", !.updated = r.at, !.retry = IF r.cool THEN r.at + 1 ELSE 0]
      [] r.kind = "auth"      -> [s EXCEPT !.err = "auth", !.updated = r.at, !.retry = r.at + 1]

(* availabilityFingerprint: what is worth a write. *)
Fingerprint(s) ==
    [failed |-> s.err # "none", present |-> s.updated # 0, retry |-> s.retry, resetAt |-> s.resetAt,
     quota |-> s.quota, recover |-> s.recover, level |-> s.level]

DisabledQuotaAlreadyApplied(s) ==
    s.err # "none" /\ s.retry = 0 /\ s.resetAt = 0 /\ s.quota = "lifted" /\ s.recover = 0

(* resultNeedsGlobalTransition *)
NeedsGlobalTransition(s, r) ==
    CASE r.kind = "ok"        -> s.err # "none" \/ s.quota = "exceeded" \/ s.retry # 0 \/ s.resetAt # 0
      [] r.kind = "auth"      -> TRUE
      [] r.kind = "transient" -> FALSE
      [] r.kind = "quota" /\ ~r.cool -> ~DisabledQuotaAlreadyApplied(s)
      [] OTHER -> LET next == QuotaCooldownAfterFailure(s, r.at, r.hint)
                  IN \/ ~(s.quota = "exceeded" /\ s.recover > r.at)
                     \/ s.retry # next.until \/ s.recover # next.until \/ s.level # next.level

-------------------------------------------------------------------------------
(* Clearing cooldowns (cooldown.go). *)

(* clearModelQuotaCooldown *)
QuotaCleared(s, at) ==
    IF s.quota # "exceeded" /\ s.recover = 0 THEN s
    ELSE LET cleared == [s EXCEPT !.quota = "none", !.recover = 0, !.level = 0, !.resetAt = at]
         IN IF s.err \in {"none", "quota"} THEN [cleared EXCEPT !.err = "none", !.retry = 0] ELSE cleared

(* hasDisabledCooldownState *)
CoveredRetry(s) == s.retry # 0 /\ s.err \in {"none", "transient"} /\ ~(s.quota = "exceeded" /\ s.retry = s.recover)
Covered(s) == s.quota = "exceeded" \/ s.recover # 0 \/ CoveredRetry(s)

(* clearDisabledCooldownState *)
DisabledCleared(s, at) ==
    LET q == QuotaCleared(s, at)
        cleared == IF CoveredRetry(q) THEN [q EXCEPT !.retry = 0] ELSE q
    IN IF cleared = s THEN s ELSE Expire(cleared, at)

-------------------------------------------------------------------------------
(* Merging the persisted state into a copy. *)

NonQuotaState(s) == s.err \notin {"none", "quota"}

(* mergePersistedQuotaIntoLocalState *)
WithPersistedQuota(p, l) ==
    LET merged == [l EXCEPT !.quota = p.quota, !.recover = p.recover, !.level = p.level, !.resetAt = p.resetAt]
    IN IF p.quota # "exceeded" THEN merged
       ELSE [merged EXCEPT !.retry = Later(l.retry, Later(p.retry, p.recover))]

(* MergePersistedModelState *)
MergePersistedModelState(p, l) ==
    CASE p.resetAt # 0 -> IF NonQuotaState(l) THEN WithPersistedQuota(p, l) ELSE p
      [] p.resetAt = 0 /\ p.quota = "exceeded" ->
            IF l.updated > p.updated /\ NonQuotaState(l) THEN WithPersistedQuota(p, l) ELSE p
      [] OTHER -> IF l.updated > p.updated THEN l ELSE p

(* adoptPersistedResultState: one model, so the persisted state replaces the copy's. *)
AdoptedResult(l, p, at) ==
    IF l.version > p.version THEN l
    ELSE [version |-> p.version, state |-> Expire(p.state, at), projection |-> l.projection /\ p.version = l.version]

(* adoptPersistedCooldownState *)
AdoptedCooldown(l, p, at) ==
    IF l.version > p.version THEN l
    ELSE [version |-> p.version, state |-> Expire(MergePersistedModelState(p.state, l.state), at),
          projection |-> l.projection /\ p.version = l.version]

(* adoptAuthoritativeAuthLocked *)
AdoptedAuthoritative(l, p) ==
    IF l.version > p.version THEN l
    ELSE [version |-> p.version, state |-> MergePersistedModelState(p.state, l.state), projection |-> FALSE]

-------------------------------------------------------------------------------
(* Results: MarkResult. *)

CoolFree(w) == coolWork[w] = CoolNone
ReportAllowed == coolBudget.reports < MaxReports
ControlAllowed == coolBudget.controls < MaxControls
CountReport == coolBudget' = [coolBudget EXCEPT !.reports = @ + 1]
CountControl == coolBudget' = [coolBudget EXCEPT !.controls = @ + 1]
DatabaseError == coolBudget.errors < MaxErrors /\ coolBudget' = [coolBudget EXCEPT !.errors = @ + 1]
Work(w, op) == coolWork' = [coolWork EXCEPT ![w] = op]

(* After a covered result the Home looks whether cooling was switched off meanwhile. *)
Reconciling(r) ==
    IF r.kind \in {"quota", "transient"} THEN [kind |-> "reconcile", stage |-> "select", then |-> "end"] ELSE CoolNone

(* The copy decides between the shared transition and the local one, which is saved later. *)
Report(w, kind, hint) ==
    LET h == w[1]
        l == localCopy[h]
        r == [kind |-> kind, at |-> coolNow, hint |-> hint, cool |-> cooling[h]]
        next == Expire(ResultTransition(l.state, r), r.at)
        unchanged == r.kind = "quota" /\ ~r.cool /\ Fingerprint(next) = Fingerprint(l.state)
    IN /\ CoolFree(w) /\ ReportAllowed /\ CountReport
       /\ IF NeedsGlobalTransition(l.state, r)
          THEN Work(w, [kind |-> "result", stage |-> "mutate", result |-> r]) /\ UNCHANGED localCopy
          ELSE /\ localCopy' = [localCopy EXCEPT ![h].state = next]
               /\ Work(w, [kind |-> "result", stage |-> "stage", result |-> r, persist |-> ~l.projection /\ ~unchanged])
       /\ UNCHANGED <<coolNow, sharedRow, cooling, staged, saving, fencePending, quotaReset>>

(* stageResultPersist *)
StageResult(w) ==
    /\ coolWork[w].kind = "result" /\ coolWork[w].stage = "stage"
    /\ staged' = [staged EXCEPT ![w[1]] = @ \/ coolWork[w].persist]
    /\ Work(w, Reconciling(coolWork[w].result))
    /\ UNCHANGED <<coolNow, sharedRow, localCopy, cooling, saving, fencePending, coolBudget, quotaReset>>

(* MutateAuthState: the transition on the locked row, written when it changes the fingerprint. *)
MutateResult(w) ==
    LET r == coolWork[w].result
        next == Expire(ResultTransition(sharedRow.state, r), r.at)
        changed == Fingerprint(next) # Fingerprint(sharedRow.state)
        copy == [version |-> IF changed THEN sharedRow.version + 1 ELSE sharedRow.version, state |-> next]
    IN /\ coolWork[w].kind = "result" /\ coolWork[w].stage = "mutate"
       /\ sharedRow' = IF changed THEN copy ELSE sharedRow
       /\ quotaReset' = (quotaReset /\ sharedRow'.state.resetAt # 0)
       /\ Work(w, [kind |-> "result", stage |-> "adopt", result |-> r, copy |-> copy])
       /\ UNCHANGED <<coolNow, localCopy, cooling, staged, saving, fencePending, coolBudget>>

MutateResultFails(w) ==
    /\ coolWork[w].kind = "result" /\ coolWork[w].stage = "mutate"
    /\ DatabaseError
    /\ Work(w, CoolNone)
    /\ UNCHANGED <<coolNow, sharedRow, localCopy, cooling, staged, saving, fencePending, quotaReset>>

AdoptResult(w) ==
    LET op == coolWork[w]
    IN /\ op.kind = "result" /\ op.stage = "adopt"
       /\ localCopy' = [localCopy EXCEPT ![w[1]] = AdoptedResult(@, op.copy, op.result.at)]
       /\ Work(w, Reconciling(op.result))
       /\ UNCHANGED <<coolNow, sharedRow, cooling, staged, saving, fencePending, coolBudget, quotaReset>>

-------------------------------------------------------------------------------
(***************************************************************************)
(* Control operations.                                                     *)
(*   reset      ClearQuotaCooldown, an operator's reset                    *)
(*   reconcile  reconcileCoveredCooldownAfterResult                        *)
(*   reload     loadClusterAuths, on every credential event                *)
(*   clear      ClearDisabledCooldownStates, at the end of a reload        *)
(*   fence      FenceDisabledCooldownStates                                *)
(* "then" is what follows: a configuration that disables cooling is        *)
(* applied, reloaded and fenced, one that enables it is fenced, applied    *)
(* and reloaded.                                                           *)
(***************************************************************************)
Clears == {"reconcile", "clear", "fence"}
Control(kind, stage, then) ==
    [kind |-> kind, stage |-> stage, then |-> then, at |-> IF stage = "mutate" THEN coolNow ELSE 0]

StartReset(w) ==
    /\ CoolFree(w) /\ ControlAllowed /\ CountControl
    /\ Work(w, Control("reset", "mutate", "end"))
    /\ UNCHANGED <<coolNow, sharedRow, localCopy, cooling, staged, saving, fencePending, quotaReset>>

(* ReloadAuths, when an event announces a newer row, or one this Home has written itself. *)
StartReload(h) ==
    /\ CoolFree(Applier(h))
    /\ sharedRow.version > localCopy[h].version \/ ~localCopy[h].projection
    /\ Work(Applier(h), Control("reload", "read", "end"))
    /\ UNCHANGED <<coolNow, sharedRow, localCopy, cooling, staged, saving, fencePending, coolBudget, quotaReset>>

(* applyConfigAndReloadAuths *)
SwitchCooling(h) ==
    /\ CoolFree(Applier(h)) /\ ControlAllowed /\ CountControl
    /\ IF cooling[h]
       THEN cooling' = [cooling EXCEPT ![h] = FALSE] /\ Work(Applier(h), Control("reload", "read", "fence"))
       ELSE Work(Applier(h), Control("fence", "select", "enable")) /\ UNCHANGED cooling
    /\ UNCHANGED <<coolNow, sharedRow, localCopy, staged, saving, fencePending, quotaReset>>

(* applyCoreAuthAddOrUpdate reads the copy and merges it into the row's state ... *)
ReloadRow(h) ==
    LET op == coolWork[Applier(h)]
    IN /\ op.kind = "reload" /\ op.stage = "read"
       /\ Work(Applier(h), [kind |-> "reload", stage |-> "store", then |-> op.then,
                            copy |-> [version |-> sharedRow.version, projection |-> TRUE,
                                      state |-> MergePersistedModelState(sharedRow.state, localCopy[h].state)]])
       /\ UNCHANGED <<coolNow, sharedRow, localCopy, cooling, staged, saving, fencePending, coolBudget, quotaReset>>

(* ... and updateWithAcceptance stores the result, unless the copy is of a newer version by now. *)
StoreMerged(h) ==
    LET op == coolWork[Applier(h)]
    IN /\ op.kind = "reload" /\ op.stage = "store"
       /\ localCopy' = IF op.copy.version < localCopy[h].version THEN localCopy ELSE [localCopy EXCEPT ![h] = op.copy]
       /\ Work(Applier(h), Control("clear", "select", op.then))
       /\ UNCHANGED <<coolNow, sharedRow, cooling, staged, saving, fencePending, coolBudget, quotaReset>>

(* What the actor does once its clearing is over; re-enabling stops when the fence failed. *)
Following(w, failed) ==
    LET op == coolWork[w]
    IN CASE op.then = "fence" -> Work(w, Control("fence", "select", "end")) /\ UNCHANGED cooling
         [] op.then = "enable" /\ ~failed ->
              /\ cooling' = [cooling EXCEPT ![w[1]] = TRUE]
              /\ Work(w, Control("reload", "read", "end"))
         [] OTHER -> Work(w, CoolNone) /\ UNCHANGED cooling

(* History: a snapshot that is being saved when its Home fences. *)
MarkSaves(w) ==
    saving' = IF coolWork[w].kind = "fence" /\ saving[w[1]].kind = "write"
              THEN [saving EXCEPT ![w[1]].fenced = TRUE] ELSE saving

(* The credentials clearDisabledCooldownStates picks. *)
Selected(h, kind) ==
    /\ ~cooling[h]
    /\ \/ Covered(localCopy[h].state)
       \/ kind # "reconcile" /\ fencePending[h]
       \/ kind = "fence" /\ (staged[h] \/ saving[h] # CoolNone)

SelectClear(w) ==
    LET op == coolWork[w]
    IN /\ op.kind \in Clears /\ op.stage = "select"
       /\ IF Selected(w[1], op.kind)
          THEN Work(w, Control(op.kind, "mutate", op.then)) /\ UNCHANGED cooling
          ELSE Following(w, FALSE)
       /\ MarkSaves(w)
       /\ UNCHANGED <<coolNow, sharedRow, localCopy, staged, fencePending, coolBudget, quotaReset>>

RowCleared(row, op) == IF op.kind = "reset" THEN QuotaCleared(row.state, op.at) ELSE DisabledCleared(row.state, op.at)

(* Faulty variant: a clearing, too, keeps the version of a row that is already clear. *)
ClearedRowIfChanged(row, op) ==
    IF RowCleared(row, op) = row.state THEN row
    ELSE [version |-> row.version + 1, state |-> Expire(RowCleared(row, op), op.at)]

(* mutateCooldownState: a clearing advances the version of a row that is already clear, a reset does not. *)
ClearedRow(row, op) ==
    IF RowCleared(row, op) # row.state
    THEN [version |-> row.version + 1, state |-> Expire(RowCleared(row, op), op.at)]
    ELSE IF op.kind = "reset" THEN row ELSE [row EXCEPT !.version = @ + 1]

MutateClear(w) ==
    LET op == coolWork[w]
    IN /\ op.kind \in Clears \cup {"reset"} /\ op.stage = "mutate"
       /\ sharedRow' = ClearedRow(sharedRow, op)
       /\ quotaReset' = (quotaReset \/ sharedRow.state.quota = "exceeded")
       /\ Work(w, [kind |-> op.kind, stage |-> "adopt", then |-> op.then, at |-> op.at, copy |-> sharedRow'])
       /\ UNCHANGED <<coolNow, localCopy, cooling, staged, saving, fencePending, coolBudget>>

AdoptClear(w) ==
    LET op == coolWork[w]
    IN /\ op.kind \in Clears \cup {"reset"} /\ op.stage = "adopt"
       /\ localCopy' = [localCopy EXCEPT ![w[1]] = AdoptedCooldown(@, op.copy, op.at)]
       /\ Work(w, IF op.kind = "reset" THEN CoolNone
                  ELSE [kind |-> op.kind, stage |-> "local", then |-> op.then, at |-> op.at, failed |-> FALSE])
       /\ UNCHANGED <<coolNow, sharedRow, cooling, staged, saving, fencePending, coolBudget, quotaReset>>

(* The database refuses: a reset reports the error, a clearing still takes effect on this Home. *)
MutateClearFails(w) ==
    LET op == coolWork[w]
    IN /\ op.kind \in Clears \cup {"reset"} /\ op.stage = "mutate"
       /\ DatabaseError
       /\ Work(w, IF op.kind = "reset" THEN CoolNone
                  ELSE [kind |-> op.kind, stage |-> "local", then |-> op.then, at |-> op.at, failed |-> TRUE])
       /\ UNCHANGED <<coolNow, sharedRow, localCopy, cooling, staged, saving, fencePending, quotaReset>>

(* clearLocalDisabledCooldownState *)
ClearLocal(w) ==
    LET op == coolWork[w]
    IN /\ op.kind \in Clears /\ op.stage = "local"
       /\ localCopy' = [localCopy EXCEPT ![w[1]].state = DisabledCleared(@, op.at)]
       /\ fencePending' = [fencePending EXCEPT ![w[1]] = op.failed]
       /\ Following(w, op.failed)
       /\ UNCHANGED <<coolNow, sharedRow, staged, saving, coolBudget, quotaReset>>

-------------------------------------------------------------------------------
(* The background worker: runResultPersistWorker. *)

(* persistQueued: the copy of now is saved, not the one that was staged. *)
BeginSave(h) ==
    /\ staged[h] /\ saving[h] = CoolNone
    /\ staged' = [staged EXCEPT ![h] = FALSE]
    /\ saving' = IF localCopy[h].projection THEN saving
                 ELSE [saving EXCEPT ![h] = [kind |-> "write", version |-> localCopy[h].version,
                                             state |-> localCopy[h].state, fenced |-> FALSE]]
    /\ UNCHANGED <<coolNow, sharedRow, localCopy, cooling, fencePending, coolWork, coolBudget, quotaReset>>

(* upsertAuthWithResult: only a snapshot of the row's current version is written. *)
SaveAccepted(row, s) == row.version = s.version

CommitSave(h) ==
    LET s == saving[h]
    IN /\ s.kind = "write"
       /\ IF ~SaveAccepted(sharedRow, s)
          THEN saving' = [saving EXCEPT ![h] = [kind |-> "rejected"]] /\ UNCHANGED sharedRow
          ELSE /\ sharedRow' = IF s.state = sharedRow.state THEN sharedRow
                               ELSE [version |-> sharedRow.version + 1, state |-> s.state]
               /\ saving' = [saving EXCEPT ![h] = [kind |-> "saved", from |-> s.version, version |-> sharedRow'.version]]
       /\ UNCHANGED <<coolNow, localCopy, cooling, staged, fencePending, coolWork, coolBudget, quotaReset>>

CommitSaveFails(h) ==
    /\ saving[h].kind = "write"
    /\ DatabaseError
    /\ staged' = [staged EXCEPT ![h] = TRUE]
    /\ saving' = [saving EXCEPT ![h] = CoolNone]
    /\ UNCHANGED <<coolNow, sharedRow, localCopy, cooling, fencePending, coolWork, quotaReset>>

(* persistWithStore: a copy that has not moved on takes the new version. *)
FinishSave(h) ==
    LET s == saving[h]
    IN /\ s.kind = "saved"
       /\ localCopy' = [localCopy EXCEPT ![h].version = IF @ = s.from THEN s.version ELSE @]
       /\ saving' = [saving EXCEPT ![h] = CoolNone]
       /\ UNCHANGED <<coolNow, sharedRow, cooling, staged, fencePending, coolWork, coolBudget, quotaReset>>

AdoptAuthoritative(h) ==
    /\ saving[h].kind = "rejected"
    /\ localCopy' = [localCopy EXCEPT ![h] = AdoptedAuthoritative(@, sharedRow)]
    /\ saving' = [saving EXCEPT ![h] = CoolNone]
    /\ UNCHANGED <<coolNow, sharedRow, cooling, staged, fencePending, coolWork, coolBudget, quotaReset>>

CoolTick ==
    /\ coolNow < MaxCoolTime
    /\ coolNow' = coolNow + 1
    /\ UNCHANGED <<sharedRow, localCopy, cooling, staged, saving, fencePending, coolWork, coolBudget, quotaReset>>

CooldownNext ==
    \/ \E w \in CoolWorkers :
          \/ \E kind \in ResultKinds \ {"quota"} : Report(w, kind, 0)
          \/ \E delay \in HintDelays : Report(w, "quota", IF delay = 0 THEN 0 ELSE coolNow + delay)
          \/ StageResult(w) \/ MutateResult(w) \/ MutateResultFails(w) \/ AdoptResult(w)
          \/ StartReset(w)
    \/ \E w \in CoolActors :
          SelectClear(w) \/ MutateClear(w) \/ MutateClearFails(w) \/ AdoptClear(w) \/ ClearLocal(w)
    \/ \E h \in CoolHomes :
          \/ StartReload(h) \/ SwitchCooling(h) \/ ReloadRow(h) \/ StoreMerged(h)
          \/ BeginSave(h) \/ CommitSave(h) \/ CommitSaveFails(h) \/ FinishSave(h) \/ AdoptAuthoritative(h)
    \/ CoolTick

CooldownSpec == CooldownInit /\ [][CooldownNext]_coolVars

-------------------------------------------------------------------------------
(* What should hold. *)

(***************************************************************************)
(* "Open windows keep their backoff level and are never shortened": while  *)
(* a quota window is open, failures reported to any Home, late saves and   *)
(* merges leave its end no earlier and its level alone; only a success, a  *)
(* reset or switching cooling off ends it (quotaCooldownAfterFailure).     *)
(***************************************************************************)
WindowNeverShortened ==
    [][(sharedRow.state.quota = "exceeded" /\ sharedRow.state.recover > coolNow
          /\ sharedRow'.state.quota = "exceeded")
         => /\ sharedRow'.state.recover >= sharedRow.state.recover
            /\ sharedRow'.state.level = sharedRow.state.level]_coolVars

(***************************************************************************)
(* "A reset owns quota state even when a repeated in-window 429 gave the   *)
(* local copy a newer execution timestamp": a window that an operator's    *)
(* reset or the clearing of disabled cooldowns closed in the shared row is *)
(* not brought back by the merges and late saves of any Home; only a quota *)
(* failure opens another (MergePersistedModelState, upsertAuthWithResult). *)
(***************************************************************************)
ResetsHold == [](quotaReset => sharedRow.state.quota # "exceeded")

(***************************************************************************)
(* FenceDisabledCooldownStates advances the revision "so older             *)
(* asynchronous snapshots cannot restore a cooldown after the              *)
(* configuration switch": a snapshot that was being saved when its Home    *)
(* fenced is not written once the fence is over, as long as the database   *)
(* took every write.                                                       *)
(***************************************************************************)
SwitchFencesSaves ==
    [][\A h \in CoolHomes :
         /\ CommitSave(h) /\ saving[h].fenced
         /\ coolWork[Applier(h)].kind # "fence" /\ coolBudget.errors = 0
         => sharedRow' = sharedRow]_coolVars

(***************************************************************************)
(* A quota window has one beginning, the failure that opened it, and no    *)
(* Home that was late or out of date moves either of its ends.             *)
(***************************************************************************)
QuotaWindowsHold == WindowNeverShortened /\ ResetsHold
===============================================================================
