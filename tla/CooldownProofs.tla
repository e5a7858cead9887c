---------------------------- MODULE CooldownProofs ----------------------------
(***************************************************************************)
(* Machine-checked proofs about cooldowns, for any Homes and concurrent    *)
(* operations, any results, delays, resets, switches and database errors:  *)
(* an open quota window keeps its end and its level, what a clearing       *)
(* closed stays closed, and a fence stops the snapshots before it.         *)
(*                                                                         *)
(* Versions name states of the shared row. A Home's copy, a snapshot that  *)
(* is being saved and the outcome of a transaction that is not adopted yet *)
(* may lag behind the row; at the same version they may differ from it in  *)
(* much, but not in the end and the level of an open quota window, and a   *)
(* row that was reset is reset at that version for everyone.               *)
(***************************************************************************)
EXTENDS Cooldown, FiniteSetTheorems, TLAPS

-------------------------------------------------------------------------------
(* The inductive invariant. *)

ModelStates ==
    [err : {"none", "quota", "transient", "auth"}, quota : {"none", "exceeded", "lifted"},
     retry : Nat, recover : Nat, level : Nat, resetAt : Nat, updated : Nat]
CredentialRows == [version : Nat, state : ModelStates]
CredentialCopies == [version : Nat, state : ModelStates, projection : BOOLEAN]
Snapshots == [kind : {"write"}, version : Nat, state : ModelStates, fenced : BOOLEAN]
Results == [kind : {"ok", "quota", "transient", "auth"}, at : Nat \ {0}, hint : Nat, cool : BOOLEAN]

SameQuota(s, t) == s.quota = t.quota /\ s.recover = t.recover /\ s.level = t.level /\ s.resetAt = t.resetAt
SameWindow(s, t) ==
    s.quota = "exceeded" /\ t.quota = "exceeded" => s.recover = t.recover /\ s.level = t.level
Reset(s) == s.quota # "exceeded" /\ s.resetAt # 0

Adopting(o) == o.kind \in Clears \union {"reset", "result"} /\ o.stage = "adopt"
Storing(o) == o.kind = "reload" /\ o.stage = "store"

RowInv ==
    /\ sharedRow \in CredentialRows
    /\ quotaReset \in BOOLEAN
    /\ quotaReset => Reset(sharedRow.state)
    /\ coolNow \in Nat \ {0}
    /\ coolBudget \in [reports : Nat, controls : Nat, errors : Nat]

\* What an operation o has in hand, for a row and its history.
OperationInv(o, row, closed, now) ==
    /\ o.kind = "result" => o.result \in Results /\ o.result.at <= now
    /\ o.kind \in Clears \union {"reset"} /\ o.stage \in {"mutate", "adopt", "local"} => o.at \in Nat \ {0}
    /\ Adopting(o) => /\ o.copy \in CredentialRows /\ o.copy.version <= row.version
                      /\ o.copy.version = row.version => SameQuota(o.copy.state, row.state)
    /\ Storing(o) => /\ o.copy \in CredentialCopies /\ o.copy.version <= row.version
                     /\ o.copy.projection
                     /\ closed /\ o.copy.version = row.version => Reset(o.copy.state)

CopyInv(l, row, closed) ==
    /\ l \in CredentialCopies /\ l.version <= row.version
    /\ ~l.projection /\ l.version = row.version => SameWindow(l.state, row.state)
    /\ closed /\ l.version = row.version => Reset(l.state)

\* What a worker does, and that a Home cools nothing while its applier fences or is about to.
WorkerInv(o) == o.kind \in {"none", "result", "reset", "reconcile"} /\ (o.kind = "reconcile" => o.then = "end")
ApplierInv(o, cools) ==
    /\ o.kind \in {"none", "reload", "clear", "fence"}
    /\ o.kind = "fence" \/ (o.kind \in {"reload", "clear"} /\ o.then = "fence") => ~cools

\* A snapshot s is being written by a Home with the copy l.
WriteInv(s, l, row, closed) ==
    /\ s \in Snapshots /\ s.version <= l.version
    /\ s.version = row.version => /\ SameWindow(s.state, row.state)
                                  /\ ~l.projection => SameWindow(s.state, l.state)
                                  /\ closed => Reset(s.state)

\* Without database errors a snapshot that its Home has fenced is out of date, or will be.
FencedInv(s, o, row, errors) ==
    s.fenced /\ errors = 0 => s.version < row.version \/ (o.kind = "fence" /\ o.stage = "mutate")

\* A snapshot was saved as s.version, and what the Home has of s.from will pass for it.
SavedInv(s, l, row, closed) ==
    /\ s.from \in Nat /\ s.version \in Nat /\ s.from <= s.version /\ s.version <= row.version
    /\ s.from <= l.version
    /\ s.version = row.version /\ l.version = s.from =>
          /\ ~l.projection => SameWindow(l.state, row.state)
          /\ closed => Reset(l.state)
LateInv(s, o, row, closed) ==
    s.version = row.version =>
        /\ Adopting(o) /\ o.copy.version = s.from =>
              SameWindow(o.copy.state, row.state) /\ (closed => Reset(o.copy.state))
        /\ Storing(o) /\ o.copy.version = s.from /\ closed => Reset(o.copy.state)

SavingInv(s, l, row, closed) ==
    /\ s.kind \in {"none", "write", "rejected", "saved"}
    /\ s.kind = "write" => WriteInv(s, l, row, closed)
    /\ s.kind = "saved" => SavedInv(s, l, row, closed)

ActorInv(w) ==
    /\ OperationInv(coolWork[w], sharedRow, quotaReset, coolNow)
    /\ w \in CoolWorkers => WorkerInv(coolWork[w])
    /\ w = Applier(w[1]) => ApplierInv(coolWork[w], cooling[w[1]])
    /\ saving[w[1]].kind = "saved" => LateInv(saving[w[1]], coolWork[w], sharedRow, quotaReset)
    /\ saving[w[1]].kind = "write" /\ w = Applier(w[1]) =>
          FencedInv(saving[w[1]], coolWork[w], sharedRow, coolBudget.errors)
HomeInv(h) ==
    /\ cooling[h] \in BOOLEAN
    /\ CopyInv(localCopy[h], sharedRow, quotaReset)
    /\ SavingInv(saving[h], localCopy[h], sharedRow, quotaReset)

CooldownInv ==
    /\ RowInv
    /\ DOMAIN localCopy = CoolHomes /\ DOMAIN saving = CoolHomes
    /\ DOMAIN coolWork = CoolActors /\ DOMAIN cooling = CoolHomes
    /\ \A w \in CoolActors : ActorInv(w)
    /\ \A h \in CoolHomes : HomeInv(h)

-------------------------------------------------------------------------------
(* The operators of the model. *)

LEMMA PowerOfTwo == \A n \in Nat : 2^n \in Nat
<1> SUFFICES ASSUME NEW n \in Nat PROVE 2^n \in Nat
  OBVIOUS
<1>1. IsFiniteSet(1 .. n) /\ Cardinality(1 .. n) = n
  <2>1. Cardinality(1 .. n) = IF 1 > n THEN 0 ELSE n - 1 + 1
    BY FS_Interval
  <2> QED
    BY <2>1, FS_Interval
<1>2. IsFiniteSet(SUBSET (1 .. n)) /\ Cardinality(SUBSET (1 .. n)) = 2^n
  BY <1>1, FS_SUBSET
<1> QED
  BY <1>2, FS_CardinalityType

\* Dropping a retry time that has passed changes nothing else.
LEMMA ExpireShape ==
    ASSUME NEW s \in ModelStates, NEW at \in Nat
    PROVE  Expire(s, at) \in ModelStates /\ SameQuota(Expire(s, at), s)
BY DEF Expire, ModelStates, SameQuota

LEMMA CleanShape ==
    ASSUME NEW at \in Nat
    PROVE  Clean(at) \in ModelStates /\ Clean(at).quota = "none" /\ Clean(at).resetAt = 0
BY DEF Clean, ModelStates

\* A failure within an open window keeps its level and does not shorten it.
LEMMA QuotaFailureShape ==
    ASSUME NEW s \in ModelStates, NEW at \in Nat, NEW hint \in Nat
    PROVE  LET next == QuotaCooldownAfterFailure(s, at, hint)
           IN /\ next.until \in Nat /\ next.level \in Nat
              /\ s.recover > at => next.until >= s.recover /\ next.level = s.level
<1>1. s.level \in Nat /\ s.recover \in Nat /\ 2^(s.level) \in Nat
  BY PowerOfTwo DEF ModelStates
<1>2. NextQuotaCooldown(s.level).delay \in Nat /\ NextQuotaCooldown(s.level).level \in Nat
  <2> DEFINE p == 2^(s.level)
  <2>1. p \in Nat
    BY <1>1
  <2>2. NextQuotaCooldown(s.level) = IF p >= MaxBackoff THEN [delay |-> MaxBackoff, level |-> s.level]
                                     ELSE [delay |-> p, level |-> s.level + 1]
    BY DEF NextQuotaCooldown
  <2> HIDE DEF p
  <2> QED
    BY <1>1, <2>1, <2>2, CooldownAssumption
<1> DEFINE next == NextQuotaCooldown(s.level)
<1> HIDE DEF next
<1>3. QuotaCooldownAfterFailure(s, at, hint) =
         [until |-> Later(IF s.recover > at THEN s.recover ELSE at + next.delay, hint),
          level |-> IF s.recover > at THEN s.level ELSE next.level]
  BY DEF QuotaCooldownAfterFailure, next
<1>4. next.delay \in Nat /\ next.level \in Nat
  BY <1>2 DEF next
<1> QED
  BY <1>1, <1>3, <1>4 DEF Later

LEMMA FailedShape ==
    ASSUME NEW s \in ModelStates, NEW err \in {"transient", "auth"}, NEW at \in Nat, NEW until \in Nat
    PROVE  LET t == [s EXCEPT !.err = err, !.updated = at, !.retry = until]
           IN t \in ModelStates /\ SameQuota(t, s)
BY DEF ModelStates, SameQuota

\* A quota failure opens a window when the report came from a configuration that cools down.
LEMMA CooledFailureShape ==
    ASSUME NEW s \in ModelStates, NEW at \in Nat, NEW hint \in Nat
    PROVE  LET t == AfterQuotaFailure(s, at, hint, TRUE)
           IN /\ t \in ModelStates /\ t.resetAt = 0 /\ t.quota = "exceeded"
              /\ t.recover = QuotaCooldownAfterFailure(s, at, hint).until
              /\ t.level = QuotaCooldownAfterFailure(s, at, hint).level
<1> DEFINE next == QuotaCooldownAfterFailure(s, at, hint)
           t == AfterQuotaFailure(s, at, hint, TRUE)
<1>1. next.until \in Nat /\ next.level \in Nat
  BY QuotaFailureShape
<1>2. t = [err |-> "quota", quota |-> "exceeded", retry |-> next.until, recover |-> next.until,
           level |-> next.level, resetAt |-> 0, updated |-> at]
  BY DEF AfterQuotaFailure
<1> HIDE DEF next, t
<1>3. /\ t \in ModelStates /\ t.resetAt = 0 /\ t.quota = "exceeded"
      /\ t.recover = next.until /\ t.level = next.level
  BY <1>1, <1>2 DEF ModelStates
<1> QED
  BY <1>3 DEF next, t

\* With cooling switched off it records the failure and closes no window.
LEMMA LiftedFailureShape ==
    ASSUME NEW s \in ModelStates, NEW at \in Nat, NEW hint \in Nat
    PROVE  LET t == AfterQuotaFailure(s, at, hint, FALSE)
           IN t \in ModelStates /\ t.resetAt = 0 /\ t.quota = "lifted"
<1> DEFINE t == AfterQuotaFailure(s, at, hint, FALSE)
<1>1. t = [err |-> "quota", quota |-> "lifted", retry |-> 0, recover |-> 0,
           level |-> s.level, resetAt |-> 0, updated |-> at]
  BY DEF AfterQuotaFailure
<1>2. s.level \in Nat
  BY DEF ModelStates
<1> HIDE DEF t
<1>3. t \in ModelStates /\ t.resetAt = 0 /\ t.quota = "lifted"
  BY <1>1, <1>2 DEF ModelStates
<1> QED
  BY <1>3 DEF t

\* What a result does to the quota of a state.
LEMMA TransitionShape ==
    ASSUME NEW s \in ModelStates, NEW r \in Results
    PROVE  LET t == ResultTransition(s, r)
           IN /\ t \in ModelStates
              /\ s.quota = "exceeded" /\ s.recover > r.at /\ t.quota = "exceeded"
                    => t.recover >= s.recover /\ t.level = s.level
              /\ Reset(s) /\ t.resetAt # 0 => Reset(t)
              /\ ~NeedsGlobalTransition(s, r) =>
                    /\ t.quota = "exceeded" => s.quota = "exceeded" /\ t.recover = s.recover /\ t.level = s.level
                    /\ Reset(s) => Reset(t)
<1> DEFINE t == ResultTransition(s, r)
<1>0. r.at \in Nat /\ r.hint \in Nat /\ r.cool \in BOOLEAN
  BY DEF Results
<1>1. CASE r.kind = "ok"
  <2>1. t = Clean(r.at)
    BY <1>1 DEF ResultTransition
  <2>2. ~NeedsGlobalTransition(s, r) => s.resetAt = 0
    BY <1>1 DEF NeedsGlobalTransition
  <2> QED
    BY <1>0, <2>1, <2>2, CleanShape DEF Reset
<1>2. CASE r.kind = "quota"
  <2> DEFINE next == QuotaCooldownAfterFailure(s, r.at, r.hint)
  <2>1. t = AfterQuotaFailure(s, r.at, r.hint, r.cool)
    BY <1>2 DEF ResultTransition
  <2>2. s.recover > r.at => next.until >= s.recover /\ next.level = s.level
    BY <1>0, QuotaFailureShape
  <2>3. CASE r.cool
    <3>1. ~NeedsGlobalTransition(s, r) =>
             s.quota = "exceeded" /\ s.recover = next.until /\ s.level = next.level
      BY <1>2, <2>3 DEF NeedsGlobalTransition
    <3>2. r.cool = TRUE
      BY <1>0, <2>3
    <3>3. t = AfterQuotaFailure(s, r.at, r.hint, TRUE)
      BY <2>1, <3>2
    <3>4. /\ t \in ModelStates /\ t.resetAt = 0 /\ t.quota = "exceeded"
          /\ t.recover = next.until /\ t.level = next.level
      <4> HIDE DEF t
      <4> QED
        BY <1>0, <3>3, CooledFailureShape
    <3> HIDE DEF next, t
    <3>5. ~NeedsGlobalTransition(s, r) => ~Reset(s)
      BY <3>1 DEF Reset
    <3>6. s.recover > r.at => t.recover >= s.recover /\ t.level = s.level
      BY <2>2, <3>4
    <3> QED
      BY <3>1, <3>4, <3>5, <3>6 DEF t
  <2>4. CASE ~r.cool
    <3>1. ~NeedsGlobalTransition(s, r) => s.resetAt = 0
      BY <1>2, <2>4 DEF NeedsGlobalTransition, DisabledQuotaAlreadyApplied
    <3>2. r.cool = FALSE
      BY <1>0, <2>4
    <3>3. t = AfterQuotaFailure(s, r.at, r.hint, FALSE)
      BY <2>1, <3>2
    <3>4. t \in ModelStates /\ t.resetAt = 0 /\ t.quota = "lifted"
      <4> HIDE DEF t
      <4> QED
        BY <1>0, <3>3, LiftedFailureShape
    <3> HIDE DEF next, t
    <3> QED
      BY <3>1, <3>4 DEF t, Reset
  <2> QED
    BY <1>0, <2>3, <2>4
<1>3. CASE r.kind = "transient"
  <2> DEFINE until == IF r.cool THEN r.at + 1 ELSE 0
  <2>0. until \in Nat
    BY <1>0
  <2>1. t = [s EXCEPT !.err = "transient", !.updated = r.at, !.retry = until]
    BY <1>3 DEF ResultTransition
  <2> HIDE DEF until
  <2> HIDE DEF t
  <2>2. t \in ModelStates /\ SameQuota(t, s)
    BY <1>0, <2>0, <2>1, FailedShape
  <2>3. s.recover \in Nat
    BY DEF ModelStates
  <2> QED
    BY <2>2, <2>3 DEF SameQuota, Reset, t
<1>4. CASE r.kind = "auth"
  <2>0. r.at + 1 \in Nat
    BY <1>0
  <2>1. t = [s EXCEPT !.err = "auth", !.updated = r.at, !.retry = r.at + 1]
    BY <1>4 DEF ResultTransition
  <2> HIDE DEF t
  <2>2. t \in ModelStates /\ SameQuota(t, s)
    BY <1>0, <2>0, <2>1, FailedShape
  <2>3. s.recover \in Nat
    BY DEF ModelStates
  <2> QED
    BY <2>2, <2>3 DEF SameQuota, Reset, t
<1> QED
  BY <1>1, <1>2, <1>3, <1>4 DEF Results

-------------------------------------------------------------------------------
(* Clearing and merging. *)

LEMMA ClearingShape ==
    ASSUME NEW s \in ModelStates, NEW at \in Nat
    PROVE  LET t == [s EXCEPT !.quota = "none", !.recover = 0, !.level = 0, !.resetAt = at]
           IN t \in ModelStates /\ t.quota = "none" /\ t.resetAt = at
BY DEF ModelStates

LEMMA ErrorClearedShape ==
    ASSUME NEW s \in ModelStates
    PROVE  LET t == [s EXCEPT !.err = "none", !.retry = 0]
           IN t \in ModelStates /\ SameQuota(t, s)
BY DEF ModelStates, SameQuota

\* A clearing leaves no window, and a trace of the one it closed.
LEMMA QuotaClearedShape ==
    ASSUME NEW s \in ModelStates, NEW at \in Nat \ {0}, NEW t, t = QuotaCleared(s, at)
    PROVE  /\ t \in ModelStates /\ t.quota # "exceeded"
           /\ s.quota = "exceeded" \/ Reset(s) => Reset(t)
<1>1. CASE s.quota # "exceeded" /\ s.recover = 0
  BY <1>1 DEF QuotaCleared, Reset
<1>2. CASE ~(s.quota # "exceeded" /\ s.recover = 0)
  <2> DEFINE cleared == [s EXCEPT !.quota = "none", !.recover = 0, !.level = 0, !.resetAt = at]
  <2>1. cleared \in ModelStates /\ cleared.quota = "none" /\ cleared.resetAt = at
    BY ClearingShape
  <2>2. t = IF s.err \in {"none", "quota"} THEN [cleared EXCEPT !.err = "none", !.retry = 0] ELSE cleared
    BY <1>2 DEF QuotaCleared
  <2> HIDE DEF cleared
  <2>3. t \in ModelStates /\ SameQuota(t, cleared)
    BY <2>1, <2>2, ErrorClearedShape DEF SameQuota
  <2> QED
    BY <2>1, <2>3 DEF SameQuota, Reset
<1> QED
  BY <1>1, <1>2

LEMMA DisabledClearedShape ==
    ASSUME NEW s \in ModelStates, NEW at \in Nat \ {0}, NEW t, t = DisabledCleared(s, at)
    PROVE  /\ t \in ModelStates /\ t.quota # "exceeded"
           /\ s.quota = "exceeded" \/ Reset(s) => Reset(t)
<1> DEFINE q == QuotaCleared(s, at)
           cleared == IF CoveredRetry(q) THEN [q EXCEPT !.retry = 0] ELSE q
<1>1. /\ q \in ModelStates /\ q.quota # "exceeded"
      /\ s.quota = "exceeded" \/ Reset(s) => Reset(q)
  BY QuotaClearedShape
<1>2. t = IF cleared = s THEN s ELSE Expire(cleared, at)
  BY DEF DisabledCleared
<1> HIDE DEF q
<1>3. cleared \in ModelStates /\ SameQuota(cleared, q)
  BY <1>1 DEF ModelStates, SameQuota
<1> HIDE DEF cleared
<1>4. t \in ModelStates /\ SameQuota(t, cleared)
  BY <1>2, <1>3, ExpireShape DEF SameQuota
<1> QED
  BY <1>1, <1>3, <1>4 DEF SameQuota, Reset

LEMMA PersistedQuotaShape ==
    ASSUME NEW p \in ModelStates, NEW l \in ModelStates, NEW m, m = WithPersistedQuota(p, l)
    PROVE  m \in ModelStates /\ SameQuota(m, p)
<1> DEFINE merged == [l EXCEPT !.quota = p.quota, !.recover = p.recover, !.level = p.level, !.resetAt = p.resetAt]
           until == Later(l.retry, Later(p.retry, p.recover))
<1>1. merged \in ModelStates /\ SameQuota(merged, p)
  BY DEF ModelStates, SameQuota
<1>2. until \in Nat
  BY DEF ModelStates, Later
<1>3. m = IF p.quota # "exceeded" THEN merged ELSE [merged EXCEPT !.retry = until]
  BY DEF WithPersistedQuota
<1> HIDE DEF merged, until
<1> QED
  BY <1>1, <1>2, <1>3 DEF ModelStates, SameQuota

\* A merge keeps an open window as it is persisted, does not bring one back unless it is the
\* copy's own, and keeps a reset.
LEMMA MergeShape ==
    ASSUME NEW p \in ModelStates, NEW l \in ModelStates, NEW m, m = MergePersistedModelState(p, l)
    PROVE  /\ m \in ModelStates
           /\ p.quota = "exceeded" => SameQuota(m, p)
           /\ m.quota = "exceeded" /\ p.quota # "exceeded" => m = l
           /\ Reset(p) => Reset(m)
<1>1. m = p \/ m = WithPersistedQuota(p, l) \/ (m = l /\ p.quota # "exceeded" /\ p.resetAt = 0)
  BY DEF MergePersistedModelState, ModelStates
<1>2. CASE m = p
  BY <1>2 DEF SameQuota
<1>3. CASE m = WithPersistedQuota(p, l)
  BY <1>3, PersistedQuotaShape DEF SameQuota, Reset
<1>4. CASE m = l /\ p.quota # "exceeded" /\ p.resetAt = 0
  BY <1>4 DEF Reset
<1> QED
  BY <1>1, <1>2, <1>3, <1>4

\* A step from the row to a row of its own does not shorten an open window, and keeps a reset.
LEMMA RowClearedShape ==
    ASSUME NEW row \in CredentialRows, NEW op, op.at \in Nat \ {0}
    PROVE  LET new == ClearedRow(row, op)
           IN /\ new \in CredentialRows /\ new.state.quota # "exceeded"
              /\ row.state.quota = "exceeded" \/ Reset(row.state) => Reset(new.state)
              /\ \/ new.version = row.version + 1
                 \/ new = row /\ row.state.quota # "exceeded" /\ op.kind = "reset"
<1> DEFINE s == row.state
           t == RowCleared(row, op)
           new == ClearedRow(row, op)
<1>0. s \in ModelStates /\ row.version \in Nat /\ op.at \in Nat
  BY DEF CredentialRows
<1>1. /\ t \in ModelStates /\ t.quota # "exceeded"
      /\ s.quota = "exceeded" \/ Reset(s) => Reset(t)
  BY <1>0, QuotaClearedShape, DisabledClearedShape DEF RowCleared
<1>2. CASE t # s
  <2>1. new = [version |-> row.version + 1, state |-> Expire(t, op.at)]
    BY <1>2 DEF ClearedRow
  <2>2. Expire(t, op.at) \in ModelStates /\ SameQuota(Expire(t, op.at), t)
    BY <1>0, <1>1, ExpireShape
  <2> HIDE DEF t, new
  <2> QED
    BY <1>0, <1>1, <2>1, <2>2 DEF CredentialRows, SameQuota, Reset, new
<1>3. CASE t = s
  <2>1. new = IF op.kind = "reset" THEN row ELSE [row EXCEPT !.version = @ + 1]
    BY <1>3 DEF ClearedRow
  <2> HIDE DEF t, new
  <2> QED
    BY <1>0, <1>1, <1>3, <2>1 DEF CredentialRows, new
<1> QED
  BY <1>2, <1>3

-------------------------------------------------------------------------------
(* Steps. *)

\* Function g is f but for the value v at x.
Updated(f, g, x, v) == DOMAIN g = DOMAIN f /\ \A y \in DOMAIN f : g[y] = IF y = x THEN v ELSE f[y]

LEMMA UpdatedShape ==
    /\ \A f, x : Updated(f, f, x, f[x])
    /\ \A f, x, v : Updated(f, [f EXCEPT ![x] = v], x, v)
BY DEF Updated

LEMMA Actors ==
    ASSUME NEW w \in CoolActors
    PROVE  /\ w[1] \in CoolHomes
           /\ w \in CoolWorkers \/ w = Applier(w[1])
           /\ w \in CoolWorkers => \A h : w # Applier(h)
BY CooldownAssumption DEF CoolActors, Applier

LEMMA Appliers ==
    ASSUME NEW h \in CoolHomes
    PROVE  Applier(h) \in CoolActors /\ Applier(h)[1] = h
BY DEF CoolActors, Applier

\* What is known of a state of the row says nothing of a later one.
LEMMA NewerRow ==
    ASSUME NEW row \in CredentialRows, NEW new \in CredentialRows, row.version < new.version,
           NEW closed, NEW later
    PROVE  /\ \A o, now : OperationInv(o, row, closed, now) => OperationInv(o, new, later, now)
           /\ \A l : CopyInv(l, row, closed) => CopyInv(l, new, later)
           /\ \A s, l : CopyInv(l, row, closed) /\ SavingInv(s, l, row, closed) =>
                 /\ SavingInv(s, l, new, later)
                 /\ s.kind = "saved" => \A o : LateInv(s, o, new, later)
                 /\ s.kind = "write" => \A o, e : FencedInv(s, o, new, e)
<1>0. row.version \in Nat /\ new.version \in Nat
  BY DEF CredentialRows
<1>1. ASSUME NEW o, NEW now, OperationInv(o, row, closed, now)
      PROVE  OperationInv(o, new, later, now)
  <2>1. Adopting(o) => o.copy \in CredentialRows /\ o.copy.version <= row.version
    BY <1>1 DEF OperationInv
  <2>2. Adopting(o) => o.copy.version <= new.version /\ o.copy.version # new.version
    BY <1>0, <2>1 DEF CredentialRows
  <2>3. Storing(o) => o.copy \in CredentialCopies /\ o.copy.version <= row.version /\ o.copy.projection
    BY <1>1 DEF OperationInv
  <2>4. Storing(o) => o.copy.version <= new.version /\ o.copy.version # new.version
    BY <1>0, <2>3 DEF CredentialCopies
  <2> QED
    BY <1>1, <2>1, <2>2, <2>3, <2>4 DEF OperationInv
<1>2. ASSUME NEW l, CopyInv(l, row, closed) PROVE CopyInv(l, new, later)
  BY <1>0, <1>2 DEF CopyInv, CredentialCopies
<1>3. ASSUME NEW s, NEW l, CopyInv(l, row, closed), SavingInv(s, l, row, closed)
      PROVE  /\ SavingInv(s, l, new, later)
             /\ s.kind = "saved" => \A o : LateInv(s, o, new, later)
             /\ s.kind = "write" => \A o, e : FencedInv(s, o, new, e)
  <2>1. l.version \in Nat /\ l.version <= row.version
    BY <1>3 DEF CopyInv, CredentialCopies
  <2>2. ASSUME s.kind = "saved" PROVE SavedInv(s, l, new, later) /\ \A o : LateInv(s, o, new, later)
    <3>1. SavedInv(s, l, row, closed)
      BY <1>3, <2>2 DEF SavingInv
    <3>2. s.version # new.version
      BY <1>0, <3>1 DEF SavedInv
    <3> QED
      BY <1>0, <3>1, <3>2 DEF SavedInv, LateInv
  <2>3. ASSUME s.kind = "write"
        PROVE  WriteInv(s, l, new, later) /\ \A o, e : FencedInv(s, o, new, e)
    <3>1. WriteInv(s, l, row, closed)
      BY <1>3, <2>3 DEF SavingInv
    <3>2. s.version < new.version /\ s.version # new.version
      BY <1>0, <2>1, <3>1 DEF WriteInv, Snapshots
    <3> QED
      BY <3>1, <3>2 DEF WriteInv, FencedInv
  <2> QED
    BY <1>3, <2>2, <2>3 DEF SavingInv
<1> QED
  BY <1>1, <1>2, <1>3

\* A step of one actor that leaves the row alone.
LEMMA HomeStep ==
    ASSUME CooldownInv, NEW w \in CoolActors, NEW o, NEW l, NEW s, NEW c \in BOOLEAN,
           UNCHANGED <<sharedRow, quotaReset, coolNow>>,
           coolBudget' \in [reports : Nat, controls : Nat, errors : Nat],
           coolBudget'.errors = 0 => coolBudget.errors = 0,
           Updated(coolWork, coolWork', w, o), Updated(localCopy, localCopy', w[1], l),
           Updated(saving, saving', w[1], s), Updated(cooling, cooling', w[1], c),
           OperationInv(o, sharedRow, quotaReset, coolNow),
           CopyInv(l, sharedRow, quotaReset), SavingInv(s, l, sharedRow, quotaReset),
           s.kind = "saved" => s = saving[w[1]] /\ LateInv(s, o, sharedRow, quotaReset),
           \/ w \in CoolWorkers /\ WorkerInv(o) /\ s = saving[w[1]] /\ c = cooling[w[1]]
           \/ /\ w = Applier(w[1]) /\ ApplierInv(o, c)
              /\ s.kind = "write" => FencedInv(s, o, sharedRow, coolBudget'.errors)
    PROVE  CooldownInv'
<1> DEFINE h == w[1]
<1>0. /\ DOMAIN localCopy = CoolHomes /\ DOMAIN saving = CoolHomes
      /\ DOMAIN coolWork = CoolActors /\ DOMAIN cooling = CoolHomes
  BY DEF CooldownInv
<1>1. /\ DOMAIN localCopy' = CoolHomes /\ DOMAIN saving' = CoolHomes
      /\ DOMAIN coolWork' = CoolActors /\ DOMAIN cooling' = CoolHomes
  BY <1>0 DEF Updated
<1>2. RowInv'
  BY DEF CooldownInv, RowInv
<1>3. /\ \A v \in CoolActors : coolWork'[v] = IF v = w THEN o ELSE coolWork[v]
      /\ \A g \in CoolHomes : /\ localCopy'[g] = IF g = h THEN l ELSE localCopy[g]
                              /\ saving'[g] = IF g = h THEN s ELSE saving[g]
                              /\ cooling'[g] = IF g = h THEN c ELSE cooling[g]
  BY <1>0 DEF Updated
<1>4. h \in CoolHomes /\ (w \in CoolWorkers => \A g : w # Applier(g))
  BY Actors
<1>5. ASSUME NEW g \in CoolHomes PROVE HomeInv(g)'
  <2>1. HomeInv(g)
    BY DEF CooldownInv
  <2> QED
    BY <1>3, <2>1 DEF HomeInv
<1>6. ASSUME NEW v \in CoolActors PROVE ActorInv(v)'
  <2>0. ActorInv(v) /\ v[1] \in CoolHomes /\ (v = Applier(v[1]) => v \notin CoolWorkers)
    BY Actors DEF CooldownInv
  <2>1. OperationInv(coolWork'[v], sharedRow, quotaReset, coolNow)
    BY <1>3, <2>0 DEF ActorInv
  <2>2. v \in CoolWorkers => WorkerInv(coolWork'[v])
    BY <1>3, <1>4, <2>0 DEF ActorInv
  <2>3. ASSUME v = Applier(v[1]) PROVE ApplierInv(coolWork'[v], cooling'[v[1]])
    BY <1>3, <1>4, <2>0, <2>3 DEF ActorInv
  <2>4. ASSUME saving'[v[1]].kind = "saved" PROVE LateInv(saving'[v[1]], coolWork'[v], sharedRow, quotaReset)
    BY <1>3, <1>4, <2>0, <2>4 DEF ActorInv
  <2>5. ASSUME saving'[v[1]].kind = "write", v = Applier(v[1])
        PROVE  FencedInv(saving'[v[1]], coolWork'[v], sharedRow, coolBudget'.errors)
    <3>1. CASE v = w
      BY <1>3, <1>4, <2>0, <2>5, <3>1
    <3>2. CASE v # w
      <4>1. coolWork'[v] = coolWork[v] /\ saving'[v[1]] = saving[v[1]]
        BY <1>3, <1>4, <2>0, <2>5, <3>2
      <4> QED
        BY <2>0, <2>5, <4>1 DEF ActorInv, FencedInv
    <3> QED
      BY <3>1, <3>2
  <2> QED
    BY <2>1, <2>2, <2>3, <2>4, <2>5 DEF ActorInv
<1> QED
  BY <1>1, <1>2, <1>5, <1>6 DEF CooldownInv

\* A step that leaves the saving alone, too.
LEMMA CopyStep ==
    ASSUME CooldownInv, NEW w \in CoolActors, NEW o, NEW l, NEW c \in BOOLEAN,
           UNCHANGED <<sharedRow, quotaReset, coolNow, saving>>,
           coolBudget' \in [reports : Nat, controls : Nat, errors : Nat],
           coolBudget'.errors = 0 => coolBudget.errors = 0,
           Updated(coolWork, coolWork', w, o), Updated(localCopy, localCopy', w[1], l),
           Updated(cooling, cooling', w[1], c),
           OperationInv(o, sharedRow, quotaReset, coolNow),
           saving[w[1]].kind = "saved" => LateInv(saving[w[1]], o, sharedRow, quotaReset),
           CopyInv(l, sharedRow, quotaReset), SavingInv(saving[w[1]], l, sharedRow, quotaReset),
           \/ w \in CoolWorkers /\ WorkerInv(o) /\ c = cooling[w[1]]
           \/ /\ w = Applier(w[1]) /\ ApplierInv(o, c)
              /\ coolBudget'.errors # 0 \/ coolWork[w].kind # "fence" \/ coolWork[w].stage # "mutate"
    PROVE  CooldownInv'
<1>1. Updated(saving, saving', w[1], saving[w[1]])
  BY UpdatedShape
<1>2. ASSUME w = Applier(w[1]), saving[w[1]].kind = "write",
             coolBudget'.errors # 0 \/ coolWork[w].kind # "fence" \/ coolWork[w].stage # "mutate"
      PROVE  FencedInv(saving[w[1]], o, sharedRow, coolBudget'.errors)
  <2>1. FencedInv(saving[w[1]], coolWork[w], sharedRow, coolBudget.errors)
    BY <1>2 DEF CooldownInv, ActorInv
  <2> QED
    BY <1>2, <2>1 DEF FencedInv
<1> QED
  BY <1>1, <1>2, HomeStep

\* A step that changes only what an actor does.
LEMMA WorkStep ==
    ASSUME CooldownInv, NEW w \in CoolActors, NEW o, NEW c \in BOOLEAN,
           UNCHANGED <<sharedRow, quotaReset, coolNow, saving, localCopy>>,
           coolBudget' \in [reports : Nat, controls : Nat, errors : Nat],
           coolBudget'.errors = 0 => coolBudget.errors = 0,
           coolWork' = [coolWork EXCEPT ![w] = o], Updated(cooling, cooling', w[1], c),
           OperationInv(o, sharedRow, quotaReset, coolNow), ~Adopting(o),
           Storing(o) => LateInv(saving[w[1]], o, sharedRow, quotaReset),
           \/ w \in CoolWorkers /\ WorkerInv(o) /\ c = cooling[w[1]]
           \/ /\ w = Applier(w[1]) /\ ApplierInv(o, c)
              /\ coolBudget'.errors # 0 \/ coolWork[w].kind # "fence" \/ coolWork[w].stage # "mutate"
    PROVE  CooldownInv'
<1>1. Updated(localCopy, localCopy', w[1], localCopy[w[1]]) /\ Updated(coolWork, coolWork', w, o)
  BY UpdatedShape
<1>2. /\ CopyInv(localCopy[w[1]], sharedRow, quotaReset)
      /\ SavingInv(saving[w[1]], localCopy[w[1]], sharedRow, quotaReset)
  BY Actors DEF CooldownInv, HomeInv
<1>3. LateInv(saving[w[1]], o, sharedRow, quotaReset)
  BY DEF LateInv
<1> QED
  BY <1>1, <1>2, <1>3, CopyStep

\* An operation that holds neither a result nor an outcome.
LEMMA PlainOperation ==
    ASSUME NEW o, NEW row, NEW closed, NEW now, o.kind # "result", o.stage # "adopt", ~Storing(o),
           o.kind \in Clears \union {"reset"} /\ o.stage \in {"mutate", "local"} => o.at \in Nat \ {0}
    PROVE  OperationInv(o, row, closed, now) /\ ~Adopting(o)
BY DEF OperationInv, Adopting

LEMMA ControlShape ==
    ASSUME NEW kind, NEW stage, NEW then, coolNow \in Nat \ {0}
    PROVE  LET o == Control(kind, stage, then)
           IN /\ o.kind = kind /\ o.stage = stage /\ o.then = then
              /\ stage = "mutate" => o.at \in Nat \ {0}
BY DEF Control

LEMMA NoOperation ==
    ASSUME NEW row, NEW closed, NEW now
    PROVE  /\ OperationInv(CoolNone, row, closed, now) /\ ~Adopting(CoolNone) /\ ~Storing(CoolNone)
           /\ WorkerInv(CoolNone) /\ \A c : ApplierInv(CoolNone, c)
BY DEF CoolNone, OperationInv, Adopting, Storing, WorkerInv, ApplierInv, Clears

LEMMA AfterResult ==
    ASSUME NEW r, NEW row, NEW closed, NEW now
    PROVE  /\ OperationInv(Reconciling(r), row, closed, now)
           /\ ~Adopting(Reconciling(r)) /\ ~Storing(Reconciling(r)) /\ WorkerInv(Reconciling(r))
<1>1. CASE r.kind \in {"quota", "transient"}
  <2>1. Reconciling(r) = [kind |-> "reconcile", stage |-> "select", then |-> "end"]
    BY <1>1 DEF Reconciling
  <2> QED
    BY <2>1 DEF OperationInv, Adopting, Storing, WorkerInv, Clears
<1>2. CASE r.kind \notin {"quota", "transient"}
  BY <1>2, NoOperation DEF Reconciling
<1> QED
  BY <1>1, <1>2

LEMMA BudgetShape ==
    ASSUME coolBudget \in [reports : Nat, controls : Nat, errors : Nat]
    PROVE  /\ CountReport \/ CountControl \/ UNCHANGED coolBudget =>
                 /\ coolBudget' \in [reports : Nat, controls : Nat, errors : Nat]
                 /\ coolBudget'.errors = coolBudget.errors
           /\ DatabaseError => /\ coolBudget' \in [reports : Nat, controls : Nat, errors : Nat]
                               /\ coolBudget'.errors # 0
BY DEF CountReport, CountControl, DatabaseError

\* What holds of an actor and its Home.
LEMMA Known ==
    ASSUME CooldownInv, NEW w \in CoolActors
    PROVE  /\ sharedRow \in CredentialRows /\ coolNow \in Nat \ {0}
           /\ coolBudget \in [reports : Nat, controls : Nat, errors : Nat]
           /\ quotaReset => Reset(sharedRow.state)
           /\ w \in DOMAIN coolWork /\ w[1] \in DOMAIN localCopy
           /\ w[1] \in DOMAIN saving /\ w[1] \in DOMAIN cooling /\ cooling[w[1]] \in BOOLEAN
           /\ OperationInv(coolWork[w], sharedRow, quotaReset, coolNow)
           /\ w \in CoolWorkers => WorkerInv(coolWork[w])
           /\ w = Applier(w[1]) => ApplierInv(coolWork[w], cooling[w[1]])
           /\ CopyInv(localCopy[w[1]], sharedRow, quotaReset)
           /\ SavingInv(saving[w[1]], localCopy[w[1]], sharedRow, quotaReset)
           /\ saving[w[1]].kind = "saved" => LateInv(saving[w[1]], coolWork[w], sharedRow, quotaReset)
           /\ saving[w[1]].kind = "write" /\ w = Applier(w[1]) =>
                 FencedInv(saving[w[1]], coolWork[w], sharedRow, coolBudget.errors)
BY Actors DEF CooldownInv, RowInv, ActorInv, HomeInv

LEMMA StageResultKeeps ==
    ASSUME CooldownInv, NEW w \in CoolWorkers, StageResult(w) \/ MutateResultFails(w)
    PROVE  CooldownInv'
<1>0. w \in CoolActors
  BY DEF CoolActors
<1>1. Updated(cooling, cooling', w[1], cooling[w[1]]) /\ cooling[w[1]] \in BOOLEAN
  BY <1>0, Known, UpdatedShape DEF StageResult, MutateResultFails
<1>2. PICK o : /\ coolWork' = [coolWork EXCEPT ![w] = o]
               /\ OperationInv(o, sharedRow, quotaReset, coolNow) /\ ~Adopting(o) /\ ~Storing(o)
               /\ WorkerInv(o)
  BY AfterResult, NoOperation DEF StageResult, MutateResultFails, Work
<1>3. /\ coolBudget' \in [reports : Nat, controls : Nat, errors : Nat]
      /\ coolBudget'.errors = 0 => coolBudget.errors = 0
  BY <1>0, Known, BudgetShape DEF StageResult, MutateResultFails
<1>4. UNCHANGED <<sharedRow, quotaReset, coolNow, saving, localCopy>>
  BY DEF StageResult, MutateResultFails
<1> QED
  BY <1>0, <1>1, <1>2, <1>3, <1>4, WorkStep

LEMMA StartResetKeeps ==
    ASSUME CooldownInv, NEW w \in CoolWorkers, StartReset(w)
    PROVE  CooldownInv'
<1> DEFINE o == Control("reset", "mutate", "end")
<1>0. w \in CoolActors
  BY DEF CoolActors
<1>1. Updated(cooling, cooling', w[1], cooling[w[1]]) /\ cooling[w[1]] \in BOOLEAN
  BY <1>0, Known, UpdatedShape DEF StartReset
<1>2. /\ coolWork' = [coolWork EXCEPT ![w] = o]
      /\ o.kind = "reset" /\ o.stage = "mutate" /\ o.at \in Nat \ {0}
  BY <1>0, Known, ControlShape DEF StartReset, Work
<1> HIDE DEF o
<1>3. OperationInv(o, sharedRow, quotaReset, coolNow) /\ ~Adopting(o) /\ ~Storing(o) /\ WorkerInv(o)
  BY <1>2, PlainOperation DEF Storing, WorkerInv
<1>4. /\ coolBudget' \in [reports : Nat, controls : Nat, errors : Nat]
      /\ coolBudget'.errors = 0 => coolBudget.errors = 0
  BY <1>0, Known, BudgetShape DEF StartReset
<1>5. UNCHANGED <<sharedRow, quotaReset, coolNow, saving, localCopy>>
  BY DEF StartReset
<1> QED
  BY <1>0, <1>1, <1>2, <1>3, <1>4, <1>5, WorkStep

LEMMA StartReloadKeeps ==
    ASSUME CooldownInv, NEW h \in CoolHomes, StartReload(h) \/ SwitchCooling(h)
    PROVE  CooldownInv'
<1> DEFINE w == Applier(h)
<1>0. w \in CoolActors /\ w[1] = h /\ w = Applier(w[1])
  BY Appliers
<1> HIDE DEF w
<1> cooling[h] \in BOOLEAN
  BY <1>0, Known
<1>1. coolWork[w].kind # "fence"
  BY DEF StartReload, SwitchCooling, CoolFree, CoolNone, w
<1>2. PICK o, c : /\ c \in BOOLEAN /\ coolWork' = [coolWork EXCEPT ![w] = o] /\ Updated(cooling, cooling', h, c)
                  /\ o.stage \in {"read", "select"} /\ ApplierInv(o, c) /\ o.kind \in {"reload", "fence"}
  <2>1. CASE StartReload(h)
    <3>1. cooling' = cooling /\ coolWork' = [coolWork EXCEPT ![w] = Control("reload", "read", "end")]
      BY <2>1 DEF StartReload, Work, w
    <3>2. LET o == Control("reload", "read", "end")
          IN ApplierInv(o, cooling[h]) /\ o.kind = "reload" /\ o.stage = "read"
      BY DEF ApplierInv, Control
    <3> QED
      BY <3>1, <3>2, UpdatedShape
  <2>2. CASE SwitchCooling(h) /\ cooling[h]
    <3>1. /\ cooling' = [cooling EXCEPT ![h] = FALSE]
          /\ coolWork' = [coolWork EXCEPT ![w] = Control("reload", "read", "fence")]
      BY <2>2 DEF SwitchCooling, Work, w
    <3>2. LET o == Control("reload", "read", "fence")
          IN ApplierInv(o, FALSE) /\ o.kind = "reload" /\ o.stage = "read"
      BY DEF ApplierInv, Control
    <3> QED
      BY <3>1, <3>2, UpdatedShape
  <2>3. CASE SwitchCooling(h) /\ ~cooling[h]
    <3>1. cooling' = cooling /\ coolWork' = [coolWork EXCEPT ![w] = Control("fence", "select", "enable")]
      BY <2>3 DEF SwitchCooling, Work, w
    <3>2. LET o == Control("fence", "select", "enable")
          IN ApplierInv(o, cooling[h]) /\ o.kind = "fence" /\ o.stage = "select"
      BY <2>3 DEF ApplierInv, Control
    <3> QED
      BY <3>1, <3>2, UpdatedShape
  <2> QED
    BY <2>1, <2>2, <2>3
<1>3. OperationInv(o, sharedRow, quotaReset, coolNow) /\ ~Adopting(o) /\ ~Storing(o)
  BY <1>2, PlainOperation DEF Storing, Clears
<1>4. /\ coolBudget' \in [reports : Nat, controls : Nat, errors : Nat]
      /\ coolBudget'.errors = 0 => coolBudget.errors = 0
  BY <1>0, Known, BudgetShape DEF StartReload, SwitchCooling
<1>5. UNCHANGED <<sharedRow, quotaReset, coolNow, saving, localCopy>>
  BY DEF StartReload, SwitchCooling
<1> QED
  BY <1>0, <1>1, <1>2, <1>3, <1>4, <1>5, WorkStep

LEMMA ReloadRowKeeps ==
    ASSUME CooldownInv, NEW h \in CoolHomes, ReloadRow(h)
    PROVE  CooldownInv'
<1> DEFINE w == Applier(h)
           op == coolWork[w]
           m == MergePersistedModelState(sharedRow.state, localCopy[h].state)
           o == [kind |-> "reload", stage |-> "store", then |-> op.then,
                 copy |-> [version |-> sharedRow.version, projection |-> TRUE, state |-> m]]
<1>0. w \in CoolActors /\ w[1] = h /\ w = Applier(w[1])
  BY Appliers
<1>1. /\ op.kind = "reload" /\ coolWork' = [coolWork EXCEPT ![w] = o]
      /\ UNCHANGED <<sharedRow, quotaReset, coolNow, saving, localCopy, cooling, coolBudget>>
  BY DEF ReloadRow, Work
<1>2. /\ sharedRow \in CredentialRows /\ CopyInv(localCopy[h], sharedRow, quotaReset)
      /\ cooling[h] \in BOOLEAN
      /\ ApplierInv(op, cooling[h])
      /\ quotaReset => Reset(sharedRow.state)
      /\ coolBudget \in [reports : Nat, controls : Nat, errors : Nat]
  BY <1>0, Known
<1>3. sharedRow.state \in ModelStates /\ localCopy[h].state \in ModelStates /\ sharedRow.version \in Nat
  BY <1>2 DEF CopyInv, CredentialRows, CredentialCopies
<1>4. m \in ModelStates /\ (Reset(sharedRow.state) => Reset(m))
  BY <1>3, MergeShape
<1> HIDE DEF m, w
<1>5. OperationInv(o, sharedRow, quotaReset, coolNow) /\ ~Adopting(o)
  BY <1>2, <1>3, <1>4 DEF OperationInv, Adopting, Storing, CredentialCopies, Clears
<1>6. LateInv(saving[h], o, sharedRow, quotaReset)
  BY <1>2, <1>4, <1>5 DEF LateInv
<1>7. ApplierInv(o, cooling[h])
  BY <1>1, <1>2 DEF ApplierInv
<1>8. Updated(cooling, cooling', h, cooling[h]) /\ cooling[h] \in BOOLEAN
  BY <1>1, <1>2, UpdatedShape
<1> HIDE DEF op, o
<1> QED
  BY <1>0, <1>1, <1>2, <1>5, <1>6, <1>7, <1>8, WorkStep DEF op

\* What an actor does after a clearing.
LEMMA FollowingShape ==
    ASSUME CooldownInv, NEW w \in CoolActors, NEW failed, coolWork[w].kind \in Clears, Following(w, failed)
    PROVE  \E o : \E c \in BOOLEAN :
                     /\ coolWork' = [coolWork EXCEPT ![w] = o] /\ Updated(cooling, cooling', w[1], c)
                     /\ OperationInv(o, sharedRow, quotaReset, coolNow) /\ ~Adopting(o) /\ ~Storing(o)
                     /\ \/ w \in CoolWorkers /\ WorkerInv(o) /\ c = cooling[w[1]]
                        \/ w = Applier(w[1]) /\ ApplierInv(o, c)
<1> DEFINE op == coolWork[w]
<1>0. /\ w \in CoolWorkers \/ w = Applier(w[1])
      /\ w \in CoolWorkers => WorkerInv(op)
      /\ w = Applier(w[1]) => ApplierInv(op, cooling[w[1]])
      /\ cooling[w[1]] \in BOOLEAN
  BY Actors, Known
<1>1. w \in CoolWorkers => op.then = "end"
  BY <1>0 DEF WorkerInv, Clears
<1>2. CASE op.then = "fence"
  <2> DEFINE o == Control("fence", "select", "end")
  <2>1. w = Applier(w[1]) /\ ~cooling[w[1]]
    BY <1>0, <1>1, <1>2 DEF ApplierInv, Clears
  <2>2. o.kind = "fence" /\ o.stage = "select" /\ ApplierInv(o, cooling[w[1]])
    BY <2>1 DEF ApplierInv, Control
  <2>3. coolWork' = [coolWork EXCEPT ![w] = o] /\ cooling' = cooling
    BY <1>2 DEF Following, Work
  <2> HIDE DEF o
  <2>4. OperationInv(o, sharedRow, quotaReset, coolNow) /\ ~Adopting(o) /\ ~Storing(o)
    BY <2>2, PlainOperation DEF Storing, Clears
  <2> QED
    BY <1>0, <2>1, <2>2, <2>3, <2>4, UpdatedShape
<1>3. CASE op.then = "enable" /\ ~failed
  <2> DEFINE o == Control("reload", "read", "end")
  <2>1. w = Applier(w[1])
    BY <1>0, <1>1, <1>3
  <2>2. o.kind = "reload" /\ o.stage = "read" /\ ApplierInv(o, TRUE)
    BY DEF ApplierInv, Control
  <2>3. coolWork' = [coolWork EXCEPT ![w] = o] /\ cooling' = [cooling EXCEPT ![w[1]] = TRUE]
    BY <1>3 DEF Following, Work
  <2> HIDE DEF o
  <2>4. OperationInv(o, sharedRow, quotaReset, coolNow) /\ ~Adopting(o) /\ ~Storing(o)
    BY <2>2, PlainOperation DEF Storing, Clears
  <2> QED
    BY <2>1, <2>2, <2>3, <2>4, UpdatedShape
<1>4. CASE op.then # "fence" /\ ~(op.then = "enable" /\ ~failed)
  <2>1. coolWork' = [coolWork EXCEPT ![w] = CoolNone] /\ cooling' = cooling
    BY <1>4 DEF Following, Work
  <2> QED
    BY <1>0, <2>1, NoOperation, UpdatedShape
<1> QED
  BY <1>2, <1>3, <1>4

\* A database that refuses a clearing: the actor goes on.
LEMMA ClearFailsKeeps ==
    ASSUME CooldownInv, NEW w \in CoolActors, MutateClearFails(w)
    PROVE  CooldownInv'
<1> DEFINE op == coolWork[w]
<1>1. /\ op.kind \in Clears \union {"reset"} /\ op.stage = "mutate"
      /\ coolBudget' \in [reports : Nat, controls : Nat, errors : Nat] /\ coolBudget'.errors # 0
      /\ UNCHANGED <<sharedRow, quotaReset, coolNow, saving, localCopy, cooling>>
  BY Known, BudgetShape DEF MutateClearFails
<1>2. /\ w \in CoolWorkers \/ w = Applier(w[1])
      /\ w \in CoolWorkers => WorkerInv(op)
      /\ w = Applier(w[1]) => ApplierInv(op, cooling[w[1]])
  BY Actors, Known
<1>3. op.at \in Nat \ {0}
  BY <1>1, Known DEF OperationInv
<1>4. PICK o : /\ coolWork' = [coolWork EXCEPT ![w] = o]
               /\ OperationInv(o, sharedRow, quotaReset, coolNow) /\ ~Adopting(o) /\ ~Storing(o)
               /\ \/ w \in CoolWorkers /\ WorkerInv(o)
                  \/ w = Applier(w[1]) /\ ApplierInv(o, cooling[w[1]])
  <2>1. CASE op.kind = "reset"
    <3>1. coolWork' = [coolWork EXCEPT ![w] = CoolNone]
      BY <2>1 DEF MutateClearFails, Work
    <3> QED
      BY <1>2, <3>1, NoOperation
  <2>2. CASE op.kind # "reset"
    <3> DEFINE o == [kind |-> op.kind, stage |-> "local", then |-> op.then, at |-> op.at, failed |-> TRUE]
    <3>1. coolWork' = [coolWork EXCEPT ![w] = o]
      BY <2>2 DEF MutateClearFails, Work
    <3>2. OperationInv(o, sharedRow, quotaReset, coolNow) /\ ~Adopting(o) /\ ~Storing(o)
      BY <1>1, <1>3 DEF OperationInv, Adopting, Storing, Clears
    <3>3. \/ w \in CoolWorkers /\ WorkerInv(o)
          \/ w = Applier(w[1]) /\ ApplierInv(o, cooling[w[1]])
      BY <1>2 DEF WorkerInv, ApplierInv
    <3> HIDE DEF o
    <3> QED
      BY <3>1, <3>2, <3>3
  <2> QED
    BY <2>1, <2>2
<1>5. Updated(cooling, cooling', w[1], cooling[w[1]]) /\ cooling[w[1]] \in BOOLEAN
  BY <1>1, Known, UpdatedShape
<1> HIDE DEF op
<1> QED
  BY <1>1, <1>4, <1>5, WorkStep

\* A copy that opens no window and keeps a reset is as right about every row as before.
LEMMA QuietCopy ==
    ASSUME NEW l \in CredentialCopies, NEW row, NEW closed, NEW s, NEW t \in ModelStates,
           CopyInv(l, row, closed), SavingInv(s, l, row, closed),
           t.quota = "exceeded" =>
              l.state.quota = "exceeded" /\ t.recover = l.state.recover /\ t.level = l.state.level,
           Reset(l.state) => Reset(t)
    PROVE  CopyInv([l EXCEPT !.state = t], row, closed) /\ SavingInv(s, [l EXCEPT !.state = t], row, closed)
<1> DEFINE m == [l EXCEPT !.state = t]
<1>1. m \in CredentialCopies /\ m.version = l.version /\ m.state = t /\ m.projection = l.projection
  BY DEF CredentialCopies
<1> HIDE DEF m
<1>2. CopyInv(m, row, closed)
  BY <1>1 DEF CopyInv, SameWindow
<1>3. s.kind = "write" => WriteInv(s, m, row, closed)
  BY <1>1 DEF SavingInv, WriteInv, SameWindow
<1>4. s.kind = "saved" => SavedInv(s, m, row, closed)
  BY <1>1 DEF SavingInv, SavedInv, SameWindow
<1> QED
  BY <1>2, <1>3, <1>4 DEF SavingInv, m

LEMMA ClearLocalKeeps ==
    ASSUME CooldownInv, NEW w \in CoolActors, ClearLocal(w)
    PROVE  CooldownInv'
<1> DEFINE op == coolWork[w]
           l == localCopy[w[1]]
           t == DisabledCleared(l.state, op.at)
           m == [l EXCEPT !.state = t]
<1>1. /\ op.kind \in Clears /\ op.stage = "local"
      /\ UNCHANGED <<sharedRow, quotaReset, coolNow, saving, coolBudget>>
      /\ localCopy' = [localCopy EXCEPT ![w[1]] = m]
      /\ Following(w, op.failed)
  BY DEF ClearLocal
<1>2. /\ op.at \in Nat \ {0} /\ CopyInv(l, sharedRow, quotaReset)
      /\ SavingInv(saving[w[1]], l, sharedRow, quotaReset)
      /\ coolBudget \in [reports : Nat, controls : Nat, errors : Nat]
  BY <1>1, Known DEF OperationInv
<1>3. l \in CredentialCopies /\ l.state \in ModelStates
  BY <1>2 DEF CopyInv, CredentialCopies
<1>4. t \in ModelStates /\ t.quota # "exceeded" /\ (Reset(l.state) => Reset(t))
  BY <1>2, <1>3, DisabledClearedShape
<1> HIDE DEF t
<1>5. CopyInv(m, sharedRow, quotaReset) /\ SavingInv(saving[w[1]], m, sharedRow, quotaReset)
  BY <1>2, <1>3, <1>4, QuietCopy
<1>6. PICK o, c : /\ c \in BOOLEAN /\ coolWork' = [coolWork EXCEPT ![w] = o] /\ Updated(cooling, cooling', w[1], c)
                  /\ OperationInv(o, sharedRow, quotaReset, coolNow) /\ ~Adopting(o) /\ ~Storing(o)
                  /\ \/ w \in CoolWorkers /\ WorkerInv(o) /\ c = cooling[w[1]]
                     \/ w = Applier(w[1]) /\ ApplierInv(o, c)
  BY <1>1, FollowingShape
<1>7. LateInv(saving[w[1]], o, sharedRow, quotaReset)
  BY <1>6 DEF LateInv
<1>8. Updated(localCopy, localCopy', w[1], m) /\ Updated(coolWork, coolWork', w, o)
  BY <1>1, <1>6, UpdatedShape
<1> HIDE DEF m, op, l
<1>9. coolWork[w].kind # "fence" \/ coolWork[w].stage # "mutate"
  BY <1>1 DEF op
<1> QED
  BY <1>1, <1>2, <1>5, <1>6, <1>7, <1>8, <1>9, CopyStep

LEMMA StoreMergedKeeps ==
    ASSUME CooldownInv, NEW h \in CoolHomes, StoreMerged(h)
    PROVE  CooldownInv'
<1> DEFINE w == Applier(h)
           op == coolWork[w]
           l == localCopy[h]
           m == IF op.copy.version < l.version THEN l ELSE op.copy
           o == Control("clear", "select", op.then)
<1>0. w \in CoolActors /\ w[1] = h /\ w = Applier(w[1])
  BY Appliers
<1>1. /\ op.kind = "reload" /\ op.stage = "store" /\ coolWork' = [coolWork EXCEPT ![w] = o]
      /\ UNCHANGED <<sharedRow, quotaReset, coolNow, saving, cooling, coolBudget>>
      /\ localCopy' = IF op.copy.version < l.version THEN localCopy ELSE [localCopy EXCEPT ![h] = op.copy]
  BY DEF StoreMerged, Work
<1>2. /\ CopyInv(l, sharedRow, quotaReset) /\ SavingInv(saving[h], l, sharedRow, quotaReset)
      /\ OperationInv(op, sharedRow, quotaReset, coolNow) /\ ApplierInv(op, cooling[h])
      /\ saving[h].kind = "saved" => LateInv(saving[h], op, sharedRow, quotaReset)
      /\ coolBudget \in [reports : Nat, controls : Nat, errors : Nat]
      /\ sharedRow \in CredentialRows
  BY <1>0, Known
<1>3. Storing(op) /\ ~Adopting(op)
  BY <1>1 DEF Storing, Adopting, Clears
<1> HIDE DEF w, op
<1>5. /\ op.copy \in CredentialCopies /\ op.copy.version <= sharedRow.version /\ op.copy.projection
      /\ quotaReset /\ op.copy.version = sharedRow.version => Reset(op.copy.state)
  BY <1>2, <1>3 DEF OperationInv
<1>6. op.copy.version \in Nat /\ l.version \in Nat /\ sharedRow.version \in Nat /\ l.version <= sharedRow.version
  BY <1>2, <1>5 DEF CopyInv, CredentialCopies, CredentialRows
<1>7. CopyInv(m, sharedRow, quotaReset)
  BY <1>2, <1>5 DEF CopyInv
<1>8. SavingInv(saving[h], m, sharedRow, quotaReset)
  <2> DEFINE s == saving[h]
  <2> HIDE DEF l
  <2>1. CASE op.copy.version < l.version
    BY <1>2, <2>1
  <2>2. CASE l.version <= op.copy.version
    <3>1. m = op.copy
      BY <1>6, <2>2
    <3>2. s.kind = "write" => WriteInv(s, m, sharedRow, quotaReset)
      BY <1>2, <1>5, <1>6, <2>2, <3>1 DEF SavingInv, WriteInv, Snapshots
    <3>3. ASSUME s.kind = "saved" PROVE SavedInv(s, m, sharedRow, quotaReset)
      <4>1. SavedInv(s, l, sharedRow, quotaReset) /\ LateInv(s, op, sharedRow, quotaReset)
        BY <1>2, <3>3 DEF SavingInv
      <4> QED
        BY <1>3, <1>5, <1>6, <2>2, <3>1, <4>1 DEF SavedInv, LateInv
    <3> QED
      BY <1>2, <3>2, <3>3 DEF SavingInv
  <2> QED
    BY <1>6, <2>1, <2>2
<1>9. o.kind = "clear" /\ o.stage = "select" /\ ApplierInv(o, cooling[h])
  BY <1>1, <1>2 DEF Control, ApplierInv
<1>10. Updated(localCopy, localCopy', h, m)
  BY <1>1, UpdatedShape
<1> HIDE DEF o, m
<1>11. OperationInv(o, sharedRow, quotaReset, coolNow) /\ ~Adopting(o) /\ ~Storing(o)
  BY <1>9, PlainOperation DEF Storing
<1>12. LateInv(saving[h], o, sharedRow, quotaReset)
  BY <1>11 DEF LateInv
<1>13. /\ Updated(coolWork, coolWork', w, o)
       /\ Updated(cooling, cooling', h, cooling[h]) /\ cooling[h] \in BOOLEAN
  BY <1>0, <1>1, Known, UpdatedShape
<1>14. coolWork[w].kind # "fence"
  BY <1>1 DEF op
<1> QED
  BY <1>0, <1>1, <1>2, <1>7, <1>8, <1>9, <1>10, <1>11, <1>12, <1>13, <1>14, CopyStep

\* What adopting an outcome p does to a copy l: t is the state it leaves.
LEMMA AdoptionShape ==
    ASSUME NEW row \in CredentialRows, NEW closed, closed => Reset(row.state),
           NEW l, NEW s, CopyInv(l, row, closed), SavingInv(s, l, row, closed),
           NEW p \in CredentialRows, p.version <= row.version, l.version <= p.version,
           p.version = row.version => SameQuota(p.state, row.state),
           s.kind = "saved" /\ s.version = row.version /\ p.version = s.from =>
              SameWindow(p.state, row.state) /\ (closed => Reset(p.state)),
           NEW t \in ModelStates,
           p.state.quota = "exceeded" => SameQuota(t, p.state),
           t.quota = "exceeded" /\ p.state.quota # "exceeded" => SameQuota(t, l.state),
           Reset(p.state) => Reset(t)
    PROVE  LET m == [version |-> p.version, state |-> t, projection |-> l.projection /\ p.version = l.version]
           IN CopyInv(m, row, closed) /\ SavingInv(s, m, row, closed)
<1> DEFINE m == [version |-> p.version, state |-> t, projection |-> l.projection /\ p.version = l.version]
<1>0. /\ p.version \in Nat /\ l.version \in Nat /\ row.version \in Nat /\ l.version <= row.version
      /\ l \in CredentialCopies
  BY DEF CopyInv, CredentialRows, CredentialCopies
<1>1. /\ m \in CredentialCopies /\ m.version = p.version /\ m.state = t
      /\ ~m.projection /\ p.version = l.version => ~l.projection
  BY <1>0 DEF CredentialCopies
<1> HIDE DEF m
<1>2. p.version = row.version => SameWindow(t, row.state) /\ (closed => Reset(t))
  BY DEF SameQuota, SameWindow, Reset
<1>3. CopyInv(m, row, closed)
  BY <1>0, <1>1, <1>2 DEF CopyInv
<1>4. ASSUME s.kind = "write" PROVE WriteInv(s, m, row, closed)
  <2>1. WriteInv(s, l, row, closed) /\ s.version \in Nat
    BY <1>4 DEF SavingInv, WriteInv, Snapshots
  <2>2. ASSUME s.version = row.version, ~m.projection PROVE SameWindow(s.state, m.state)
    <3>1. l.version = row.version /\ p.version = row.version /\ ~l.projection
      BY <1>0, <1>1, <2>1, <2>2 DEF WriteInv
    <3>2. SameWindow(s.state, l.state) /\ SameWindow(s.state, row.state) /\ SameQuota(p.state, row.state)
      BY <2>1, <2>2, <3>1 DEF WriteInv
    <3> QED
      BY <1>1, <3>2 DEF SameWindow, SameQuota
  <2> QED
    BY <1>0, <1>1, <2>1, <2>2 DEF WriteInv
<1>5. ASSUME s.kind = "saved" PROVE SavedInv(s, m, row, closed)
  <2>1. SavedInv(s, l, row, closed)
    BY <1>5 DEF SavingInv
  <2>2. ASSUME s.version = row.version, m.version = s.from
        PROVE  (~m.projection => SameWindow(m.state, row.state)) /\ (closed => Reset(m.state))
    <3>1. l.version = s.from /\ p.version = s.from
      BY <1>0, <1>1, <2>1, <2>2 DEF SavedInv
    <3>2. /\ SameWindow(p.state, row.state) /\ (closed => Reset(p.state))
          /\ ~l.projection => SameWindow(l.state, row.state)
      BY <1>5, <2>1, <2>2, <3>1 DEF SavedInv
    <3>3. ~m.projection => SameWindow(m.state, row.state)
      BY <1>1, <3>1, <3>2 DEF SameWindow, SameQuota
    <3> QED
      BY <1>1, <3>2, <3>3
  <2> QED
    BY <1>0, <1>1, <2>1, <2>2 DEF SavedInv
<1> QED
  BY <1>3, <1>4, <1>5 DEF SavingInv, m

\* What an operation that adopts has in hand.
LEMMA OutcomeInHand ==
    ASSUME CooldownInv, NEW w \in CoolActors, Adopting(coolWork[w])
    PROVE  LET p == coolWork[w].copy
               s == saving[w[1]]
           IN /\ p \in CredentialRows /\ p.version <= sharedRow.version
              /\ p.version = sharedRow.version => SameQuota(p.state, sharedRow.state)
              /\ s.kind = "saved" /\ s.version = sharedRow.version /\ p.version = s.from =>
                    SameWindow(p.state, sharedRow.state) /\ (quotaReset => Reset(p.state))
<1>1. /\ OperationInv(coolWork[w], sharedRow, quotaReset, coolNow)
      /\ saving[w[1]].kind = "saved" => LateInv(saving[w[1]], coolWork[w], sharedRow, quotaReset)
  BY Known
<1> QED
  BY <1>1 DEF OperationInv, LateInv

LEMMA AdoptResultKeeps ==
    ASSUME CooldownInv, NEW w \in CoolWorkers, AdoptResult(w)
    PROVE  CooldownInv'
<1> DEFINE op == coolWork[w]
           l == localCopy[w[1]]
           s == saving[w[1]]
           p == op.copy
           t == Expire(p.state, op.result.at)
           m == AdoptedResult(l, p, op.result.at)
           o == Reconciling(op.result)
<1>0. w \in CoolActors
  BY DEF CoolActors
<1>1. /\ op.kind = "result" /\ op.stage = "adopt"
      /\ localCopy' = [localCopy EXCEPT ![w[1]] = m] /\ coolWork' = [coolWork EXCEPT ![w] = o]
      /\ UNCHANGED <<coolNow, sharedRow, cooling, saving, coolBudget, quotaReset>>
  BY DEF AdoptResult, Work
<1>2. Adopting(op) /\ op.result \in Results
  BY <1>0, <1>1, Known DEF Adopting, OperationInv
<1>3. /\ p \in CredentialRows /\ p.version <= sharedRow.version
      /\ p.version = sharedRow.version => SameQuota(p.state, sharedRow.state)
      /\ s.kind = "saved" /\ s.version = sharedRow.version /\ p.version = s.from =>
            SameWindow(p.state, sharedRow.state) /\ (quotaReset => Reset(p.state))
  BY <1>0, <1>2, OutcomeInHand
<1>4. /\ sharedRow \in CredentialRows /\ (quotaReset => Reset(sharedRow.state))
      /\ CopyInv(l, sharedRow, quotaReset) /\ SavingInv(s, l, sharedRow, quotaReset)
      /\ coolBudget \in [reports : Nat, controls : Nat, errors : Nat]
      /\ cooling[w[1]] \in BOOLEAN
  BY <1>0, Known
<1>5. t \in ModelStates /\ SameQuota(t, p.state)
  BY <1>2, <1>3, ExpireShape DEF Results, CredentialRows
<1>6. m = IF l.version > p.version THEN l
          ELSE [version |-> p.version, state |-> t, projection |-> l.projection /\ p.version = l.version]
  BY DEF AdoptedResult
<1>7. l.version \in Nat /\ p.version \in Nat
  BY <1>3, <1>4 DEF CopyInv, CredentialCopies, CredentialRows
<1> HIDE DEF op, l, s, p, t, m, o
<1>8. CopyInv(m, sharedRow, quotaReset) /\ SavingInv(s, m, sharedRow, quotaReset)
  <2>1. CASE l.version > p.version
    BY <1>4, <1>6, <2>1
  <2>2. CASE l.version <= p.version
    <3>1. m = [version |-> p.version, state |-> t, projection |-> l.projection /\ p.version = l.version]
      BY <1>6, <1>7, <2>2
    <3>2. /\ p.state.quota = "exceeded" => SameQuota(t, p.state)
          /\ t.quota = "exceeded" /\ p.state.quota # "exceeded" => SameQuota(t, l.state)
          /\ Reset(p.state) => Reset(t)
      BY <1>5 DEF SameQuota, Reset
    <3> QED
      BY <1>3, <1>4, <1>5, <2>2, <3>1, <3>2, AdoptionShape
  <2> QED
    BY <1>7, <2>1, <2>2
<1>9. OperationInv(o, sharedRow, quotaReset, coolNow) /\ ~Adopting(o) /\ ~Storing(o) /\ WorkerInv(o)
  BY AfterResult DEF o
<1>10. LateInv(s, o, sharedRow, quotaReset)
  BY <1>9 DEF LateInv
<1>11. /\ Updated(coolWork, coolWork', w, o) /\ Updated(localCopy, localCopy', w[1], m)
       /\ Updated(cooling, cooling', w[1], cooling[w[1]])
  BY <1>1, UpdatedShape
<1> QED
  BY <1>0, <1>1, <1>4, <1>8, <1>9, <1>10, <1>11, CopyStep DEF s

LEMMA AdoptClearKeeps ==
    ASSUME CooldownInv, NEW w \in CoolActors, AdoptClear(w)
    PROVE  CooldownInv'
<1> DEFINE op == coolWork[w]
           l == localCopy[w[1]]
           s == saving[w[1]]
           p == op.copy
           merged == MergePersistedModelState(p.state, l.state)
           t == Expire(merged, op.at)
           m == AdoptedCooldown(l, p, op.at)
           o == IF op.kind = "reset" THEN CoolNone
                ELSE [kind |-> op.kind, stage |-> "local", then |-> op.then, at |-> op.at, failed |-> FALSE]
<1>1. /\ op.kind \in Clears \union {"reset"} /\ op.stage = "adopt"
      /\ localCopy' = [localCopy EXCEPT ![w[1]] = m] /\ coolWork' = [coolWork EXCEPT ![w] = o]
      /\ UNCHANGED <<coolNow, sharedRow, cooling, saving, coolBudget, quotaReset>>
  BY DEF AdoptClear, Work
<1>2. /\ op.at \in Nat \ {0} /\ Adopting(op)
      /\ w \in CoolWorkers \/ w = Applier(w[1])
      /\ w \in CoolWorkers => WorkerInv(op)
      /\ w = Applier(w[1]) => ApplierInv(op, cooling[w[1]])
  BY <1>1, Known, Actors DEF Adopting, OperationInv
<1>3. /\ p \in CredentialRows /\ p.version <= sharedRow.version
      /\ p.version = sharedRow.version => SameQuota(p.state, sharedRow.state)
      /\ s.kind = "saved" /\ s.version = sharedRow.version /\ p.version = s.from =>
            SameWindow(p.state, sharedRow.state) /\ (quotaReset => Reset(p.state))
  BY <1>2, OutcomeInHand
<1>4. /\ sharedRow \in CredentialRows /\ (quotaReset => Reset(sharedRow.state))
      /\ CopyInv(l, sharedRow, quotaReset) /\ SavingInv(s, l, sharedRow, quotaReset)
      /\ coolBudget \in [reports : Nat, controls : Nat, errors : Nat]
      /\ cooling[w[1]] \in BOOLEAN
  BY Known
<1>5. p.state \in ModelStates /\ l.state \in ModelStates /\ l.version \in Nat /\ p.version \in Nat
  BY <1>3, <1>4 DEF CopyInv, CredentialCopies, CredentialRows
<1>6. /\ merged \in ModelStates
      /\ p.state.quota = "exceeded" => SameQuota(merged, p.state)
      /\ merged.quota = "exceeded" /\ p.state.quota # "exceeded" => merged = l.state
      /\ Reset(p.state) => Reset(merged)
  BY <1>5, MergeShape
<1>7. t \in ModelStates /\ SameQuota(t, merged)
  BY <1>2, <1>6, ExpireShape
<1>8. m = IF l.version > p.version THEN l
          ELSE [version |-> p.version, state |-> t, projection |-> l.projection /\ p.version = l.version]
  BY DEF AdoptedCooldown
<1>9. /\ OperationInv(o, sharedRow, quotaReset, coolNow) /\ ~Adopting(o) /\ ~Storing(o)
      /\ \/ w \in CoolWorkers /\ WorkerInv(o)
         \/ w = Applier(w[1]) /\ ApplierInv(o, cooling[w[1]])
  <2>1. CASE op.kind = "reset"
    BY <1>2, <2>1, NoOperation
  <2>2. CASE op.kind # "reset"
    <3> DEFINE next == [kind |-> op.kind, stage |-> "local", then |-> op.then, at |-> op.at, failed |-> FALSE]
    <3>1. o = next
      BY <2>2
    <3>2. OperationInv(next, sharedRow, quotaReset, coolNow) /\ ~Adopting(next) /\ ~Storing(next)
      BY <1>1, <1>2 DEF OperationInv, Adopting, Storing, Clears
    <3>3. \/ w \in CoolWorkers /\ WorkerInv(next)
          \/ w = Applier(w[1]) /\ ApplierInv(next, cooling[w[1]])
      BY <1>2 DEF WorkerInv, ApplierInv
    <3> HIDE DEF next
    <3> QED
      BY <3>1, <3>2, <3>3
  <2> QED
    BY <2>1, <2>2
<1> HIDE DEF op, l, s, p, merged, t, m, o
<1>10. CopyInv(m, sharedRow, quotaReset) /\ SavingInv(s, m, sharedRow, quotaReset)
  <2>1. CASE l.version > p.version
    BY <1>4, <1>8, <2>1
  <2>2. CASE l.version <= p.version
    <3>1. m = [version |-> p.version, state |-> t, projection |-> l.projection /\ p.version = l.version]
      BY <1>5, <1>8, <2>2
    <3>2. /\ p.state.quota = "exceeded" => SameQuota(t, p.state)
          /\ t.quota = "exceeded" /\ p.state.quota # "exceeded" => SameQuota(t, l.state)
          /\ Reset(p.state) => Reset(t)
      BY <1>6, <1>7 DEF SameQuota, Reset
    <3> QED
      BY <1>3, <1>4, <1>7, <2>2, <3>1, <3>2, AdoptionShape
  <2> QED
    BY <1>5, <2>1, <2>2
<1>11. LateInv(s, o, sharedRow, quotaReset)
  BY <1>9 DEF LateInv
<1>12. /\ Updated(coolWork, coolWork', w, o) /\ Updated(localCopy, localCopy', w[1], m)
       /\ Updated(cooling, cooling', w[1], cooling[w[1]])
  BY <1>1, UpdatedShape
<1>13. coolWork[w].stage # "mutate"
  BY <1>1 DEF op
<1> QED
  BY <1>1, <1>4, <1>9, <1>10, <1>11, <1>12, <1>13, CopyStep DEF s

LEMMA ReportKeeps ==
    ASSUME CooldownInv, NEW w \in CoolWorkers, NEW kind \in {"ok", "quota", "transient", "auth"}, NEW hint \in Nat,
           Report(w, kind, hint)
    PROVE  CooldownInv'
<1> DEFINE h == w[1]
           l == localCopy[h]
           r == [kind |-> kind, at |-> coolNow, hint |-> hint, cool |-> cooling[h]]
           t == ResultTransition(l.state, r)
           next == Expire(t, r.at)
           m == [l EXCEPT !.state = next]
           unchanged == r.kind = "quota" /\ ~r.cool /\ Fingerprint(next) = Fingerprint(l.state)
           shared == [kind |-> "result", stage |-> "mutate", result |-> r]
           local == [kind |-> "result", stage |-> "stage", result |-> r, persist |-> ~l.projection /\ ~unchanged]
<1>0. w \in CoolActors
  BY DEF CoolActors
<1>1. /\ UNCHANGED <<coolNow, sharedRow, cooling, saving, quotaReset>> /\ CountReport
      /\ IF NeedsGlobalTransition(l.state, r)
         THEN coolWork' = [coolWork EXCEPT ![w] = shared] /\ UNCHANGED localCopy
         ELSE /\ localCopy' = [localCopy EXCEPT ![h] = m]
              /\ coolWork' = [coolWork EXCEPT ![w] = local]
  BY DEF Report, Work
<1>2. /\ CopyInv(l, sharedRow, quotaReset) /\ SavingInv(saving[h], l, sharedRow, quotaReset)
      /\ cooling[h] \in BOOLEAN /\ coolNow \in Nat \ {0}
      /\ coolBudget \in [reports : Nat, controls : Nat, errors : Nat]
  BY <1>0, Known
<1>3. r \in Results /\ r.at = coolNow
  BY <1>2 DEF Results
<1>4. l \in CredentialCopies /\ l.state \in ModelStates
  BY <1>2 DEF CopyInv, CredentialCopies
<1>5. /\ coolBudget' \in [reports : Nat, controls : Nat, errors : Nat]
      /\ coolBudget'.errors = 0 => coolBudget.errors = 0
  BY <1>1, <1>2, BudgetShape
<1>6. Updated(cooling, cooling', h, cooling[h])
  BY <1>1, UpdatedShape
<1> HIDE DEF r
<1>7. ASSUME NEW o, o.kind = "result", o.stage # "adopt", o.result = r
      PROVE  /\ OperationInv(o, sharedRow, quotaReset, coolNow) /\ ~Adopting(o) /\ ~Storing(o) /\ WorkerInv(o)
             /\ LateInv(saving[h], o, sharedRow, quotaReset)
  BY <1>2, <1>3, <1>7 DEF OperationInv, Adopting, Storing, WorkerInv, LateInv, Clears
<1>8. CASE NeedsGlobalTransition(l.state, r)
  <2>1. coolWork' = [coolWork EXCEPT ![w] = shared] /\ UNCHANGED localCopy
    BY <1>1, <1>8
  <2>2. shared.kind = "result" /\ shared.stage = "mutate" /\ shared.result = r
    OBVIOUS
  <2> HIDE DEF shared, h
  <2>3. OperationInv(shared, sharedRow, quotaReset, coolNow) /\ ~Adopting(shared) /\ ~Storing(shared)
        /\ WorkerInv(shared)
    BY <1>7, <2>2
  <2> QED
    BY <1>0, <1>1, <1>2, <1>5, <1>6, <2>1, <2>3, WorkStep DEF h
<1>9. CASE ~NeedsGlobalTransition(l.state, r)
  <2>1. localCopy' = [localCopy EXCEPT ![h] = m] /\ coolWork' = [coolWork EXCEPT ![w] = local]
    BY <1>1, <1>9
  <2>2. local.kind = "result" /\ local.stage = "stage" /\ local.result = r
    OBVIOUS
  <2>3. /\ t \in ModelStates
        /\ t.quota = "exceeded" =>
              l.state.quota = "exceeded" /\ t.recover = l.state.recover /\ t.level = l.state.level
        /\ Reset(l.state) => Reset(t)
    BY <1>3, <1>4, <1>9, TransitionShape
  <2> HIDE DEF t, local, unchanged
  <2>4. next \in ModelStates /\ SameQuota(next, t)
    BY <1>2, <1>3, <2>3, ExpireShape
  <2> HIDE DEF next
  <2>5. CopyInv(m, sharedRow, quotaReset) /\ SavingInv(saving[h], m, sharedRow, quotaReset)
    <3>1. /\ next.quota = "exceeded" =>
              l.state.quota = "exceeded" /\ next.recover = l.state.recover /\ next.level = l.state.level
          /\ Reset(l.state) => Reset(next)
      BY <2>3, <2>4 DEF SameQuota, Reset
    <3> QED
      BY <1>2, <1>4, <2>4, <3>1, QuietCopy
  <2>6. OperationInv(local, sharedRow, quotaReset, coolNow) /\ WorkerInv(local)
        /\ LateInv(saving[h], local, sharedRow, quotaReset)
    BY <1>7, <2>2
  <2>7. Updated(localCopy, localCopy', h, m) /\ Updated(coolWork, coolWork', w, local)
    BY <2>1, UpdatedShape
  <2> HIDE DEF m, l, h
  <2> QED
    BY <1>0, <1>1, <1>2, <1>5, <1>6, <2>5, <2>6, <2>7, CopyStep DEF h
<1> QED
  BY <1>8, <1>9

\* A step that gives the row a new version.
LEMMA RowStep ==
    ASSUME CooldownInv, NEW w \in CoolActors, NEW o,
           sharedRow' \in CredentialRows, sharedRow.version < sharedRow'.version,
           quotaReset' \in BOOLEAN, quotaReset' => Reset(sharedRow'.state),
           UNCHANGED <<coolNow, coolBudget, localCopy, saving, cooling>>,
           Updated(coolWork, coolWork', w, o),
           OperationInv(o, sharedRow', quotaReset', coolNow),
           \/ w \in CoolWorkers /\ WorkerInv(o)
           \/ w = Applier(w[1]) /\ ApplierInv(o, cooling[w[1]])
    PROVE  CooldownInv'
<1>0. sharedRow \in CredentialRows
  BY DEF CooldownInv, RowInv
<1>1. DOMAIN coolWork' = CoolActors /\ \A v \in CoolActors : coolWork'[v] = IF v = w THEN o ELSE coolWork[v]
  BY DEF CooldownInv, Updated
<1>2. RowInv'
  BY DEF CooldownInv, RowInv
<1>3. ASSUME NEW g \in CoolHomes PROVE HomeInv(g)'
  <2>1. HomeInv(g)
    BY DEF CooldownInv
  <2>2. /\ CopyInv(localCopy[g], sharedRow', quotaReset')
        /\ SavingInv(saving[g], localCopy[g], sharedRow', quotaReset')
    BY <1>0, <2>1, NewerRow DEF HomeInv
  <2> QED
    BY <2>1, <2>2 DEF HomeInv
<1>4. ASSUME NEW v \in CoolActors PROVE ActorInv(v)'
  <2>0. /\ ActorInv(v) /\ v[1] \in CoolHomes /\ (v = Applier(v[1]) => v \notin CoolWorkers)
        /\ w \in CoolWorkers => \A g : w # Applier(g)
    BY Actors DEF CooldownInv
  <2>1. OperationInv(coolWork'[v], sharedRow', quotaReset', coolNow)
    BY <1>0, <1>1, <2>0, NewerRow DEF ActorInv
  <2>2. v \in CoolWorkers => WorkerInv(coolWork'[v])
    BY <1>1, <2>0 DEF ActorInv
  <2>3. v = Applier(v[1]) => ApplierInv(coolWork'[v], cooling[v[1]])
    BY <1>1, <2>0 DEF ActorInv
  <2>4. /\ saving[v[1]].kind = "saved" => LateInv(saving[v[1]], coolWork'[v], sharedRow', quotaReset')
        /\ saving[v[1]].kind = "write" => FencedInv(saving[v[1]], coolWork'[v], sharedRow', coolBudget.errors)
    <3>1. HomeInv(v[1])
      BY <2>0 DEF CooldownInv
    <3> QED
      BY <1>0, <3>1, NewerRow DEF HomeInv
  <2> QED
    BY <2>1, <2>2, <2>3, <2>4 DEF ActorInv
<1> QED
  BY <1>1, <1>2, <1>3, <1>4 DEF CooldownInv

\* The transition of the row, and what the transaction returns.
LEMMA MutateResultShape ==
    ASSUME CooldownInv, NEW w \in CoolWorkers, MutateResult(w)
    PROVE  /\ sharedRow' \in CredentialRows /\ quotaReset' \in BOOLEAN
           /\ quotaReset' => Reset(sharedRow'.state)
           /\ (sharedRow' = sharedRow /\ quotaReset' = quotaReset) \/ sharedRow'.version = sharedRow.version + 1
           /\ LET op == coolWork[w]
              IN \E copy \in CredentialRows :
                    /\ copy.version = sharedRow'.version /\ SameQuota(copy.state, sharedRow'.state)
                    /\ coolWork' = [coolWork EXCEPT ![w] = [kind |-> "result", stage |-> "adopt",
                                                           result |-> op.result, copy |-> copy]]
           /\ sharedRow.state.quota = "exceeded" /\ sharedRow.state.recover > coolNow
                 /\ sharedRow'.state.quota = "exceeded"
                 => /\ sharedRow'.state.recover >= sharedRow.state.recover
                    /\ sharedRow'.state.level = sharedRow.state.level
<1> DEFINE op == coolWork[w]
           r == op.result
           s == sharedRow.state
           t == ResultTransition(s, r)
           next == Expire(t, r.at)
           changed == Fingerprint(next) # Fingerprint(s)
           copy == [version |-> IF changed THEN sharedRow.version + 1 ELSE sharedRow.version, state |-> next]
<1>0. w \in CoolActors
  BY DEF CoolActors
<1>1. /\ op.kind = "result" /\ sharedRow' = (IF changed THEN copy ELSE sharedRow)
      /\ quotaReset' = (quotaReset /\ sharedRow'.state.resetAt # 0)
      /\ coolWork' = [coolWork EXCEPT ![w] = [kind |-> "result", stage |-> "adopt", result |-> r, copy |-> copy]]
  BY DEF MutateResult, Work
<1>2. /\ sharedRow \in CredentialRows /\ r \in Results /\ r.at <= coolNow /\ coolNow \in Nat
      /\ quotaReset => Reset(s)
  BY <1>0, <1>1, Known DEF OperationInv
<1>3. quotaReset \in BOOLEAN /\ sharedRow.version \in Nat /\ s \in ModelStates /\ r.at \in Nat
  BY <1>2 DEF CooldownInv, RowInv, CredentialRows, Results
<1>4. /\ t \in ModelStates
      /\ s.quota = "exceeded" /\ s.recover > r.at /\ t.quota = "exceeded"
            => t.recover >= s.recover /\ t.level = s.level
      /\ Reset(s) /\ t.resetAt # 0 => Reset(t)
  BY <1>2, <1>3, TransitionShape
<1> HIDE DEF t
<1>5. next \in ModelStates /\ SameQuota(next, t)
  BY <1>3, <1>4, ExpireShape
<1>6. ~changed => SameQuota(next, s)
  BY DEF Fingerprint, SameQuota
<1> HIDE DEF next, changed, op
<1>7. copy \in CredentialRows
  BY <1>3, <1>5 DEF CredentialRows
<1>8. copy.state = next /\ copy.version = IF changed THEN sharedRow.version + 1 ELSE sharedRow.version
  OBVIOUS
<1> HIDE DEF copy
<1>9. /\ sharedRow' \in CredentialRows /\ quotaReset' \in BOOLEAN
      /\ copy.version = sharedRow'.version /\ SameQuota(copy.state, sharedRow'.state)
  BY <1>1, <1>2, <1>3, <1>6, <1>7, <1>8 DEF SameQuota
<1>10. quotaReset' => Reset(sharedRow'.state)
  BY <1>1, <1>2, <1>3, <1>4, <1>5, <1>8 DEF SameQuota, Reset
<1>11. (sharedRow' = sharedRow /\ quotaReset' = quotaReset) \/ sharedRow'.version = sharedRow.version + 1
  BY <1>1, <1>2, <1>3, <1>8 DEF Reset
<1>12. s.quota = "exceeded" /\ s.recover > coolNow /\ sharedRow'.state.quota = "exceeded"
          => sharedRow'.state.recover >= s.recover /\ sharedRow'.state.level = s.level
  <2>1. s.recover \in Nat
    BY <1>3 DEF ModelStates
  <2> QED
    BY <1>1, <1>2, <1>3, <1>4, <1>5, <1>8, <2>1 DEF SameQuota
<1> QED
  BY <1>1, <1>7, <1>9, <1>10, <1>11, <1>12 DEF op

LEMMA MutateResultKeeps ==
    ASSUME CooldownInv, NEW w \in CoolWorkers, MutateResult(w)
    PROVE  CooldownInv'
<1> DEFINE op == coolWork[w]
           s == saving[w[1]]
<1>0. w \in CoolActors
  BY DEF CoolActors
<1>1. PICK copy \in CredentialRows :
         /\ copy.version = sharedRow'.version /\ SameQuota(copy.state, sharedRow'.state)
         /\ coolWork' = [coolWork EXCEPT ![w] = [kind |-> "result", stage |-> "adopt",
                                                result |-> op.result, copy |-> copy]]
  BY MutateResultShape
<1> DEFINE o == [kind |-> "result", stage |-> "adopt", result |-> op.result, copy |-> copy]
<1>2. /\ sharedRow' \in CredentialRows /\ quotaReset' \in BOOLEAN
      /\ quotaReset' => Reset(sharedRow'.state)
      /\ (sharedRow' = sharedRow /\ quotaReset' = quotaReset) \/ sharedRow'.version = sharedRow.version + 1
  BY MutateResultShape
<1>3. /\ UNCHANGED <<coolNow, localCopy, cooling, saving, coolBudget>>
      /\ op.kind = "result" /\ op.stage = "mutate"
  BY DEF MutateResult
<1>4. /\ sharedRow.version \in Nat /\ op.result \in Results /\ op.result.at <= coolNow
      /\ coolBudget \in [reports : Nat, controls : Nat, errors : Nat]
      /\ CopyInv(localCopy[w[1]], sharedRow, quotaReset) /\ SavingInv(s, localCopy[w[1]], sharedRow, quotaReset)
      /\ cooling[w[1]] \in BOOLEAN
  BY <1>0, <1>3, Known DEF OperationInv, CredentialRows
<1>5. Updated(coolWork, coolWork', w, o) /\ o.kind = "result" /\ o.stage = "adopt" /\ o.result = op.result
      /\ o.copy = copy
  BY <1>1, UpdatedShape
<1> HIDE DEF o, op
<1>6. OperationInv(o, sharedRow', quotaReset', coolNow) /\ WorkerInv(o)
  <2>1. copy.version <= sharedRow'.version
    BY <1>1, <1>2 DEF CredentialRows
  <2> QED
    BY <1>1, <1>4, <1>5, <2>1 DEF OperationInv, WorkerInv, Storing, Clears
<1>7. CASE sharedRow' = sharedRow /\ quotaReset' = quotaReset
  <2>1. LateInv(s, o, sharedRow, quotaReset)
    <3>1. quotaReset => Reset(copy.state)
      BY <1>1, <1>2, <1>7 DEF SameQuota, Reset
    <3>2. SameWindow(copy.state, sharedRow.state)
      BY <1>1, <1>7 DEF SameQuota, SameWindow
    <3> QED
      BY <1>5, <3>1, <3>2 DEF LateInv, Storing
  <2>2. /\ Updated(localCopy, localCopy', w[1], localCopy[w[1]])
        /\ Updated(cooling, cooling', w[1], cooling[w[1]])
    BY <1>3, UpdatedShape
  <2>3. OperationInv(o, sharedRow, quotaReset, coolNow)
    BY <1>6, <1>7
  <2> QED
    BY <1>0, <1>3, <1>4, <1>5, <1>6, <1>7, <2>1, <2>2, <2>3, CopyStep
<1>8. CASE sharedRow'.version = sharedRow.version + 1
  <2>1. sharedRow.version < sharedRow'.version
    BY <1>4, <1>8
  <2> QED
    BY <1>0, <1>2, <1>3, <1>5, <1>6, <2>1, RowStep
<1> QED
  BY <1>2, <1>7, <1>8

LEMMA MutateClearShape ==
    ASSUME CooldownInv, NEW w \in CoolActors, MutateClear(w)
    PROVE  /\ sharedRow' \in CredentialRows /\ sharedRow'.state.quota # "exceeded"
           /\ quotaReset' \in BOOLEAN /\ (quotaReset' => Reset(sharedRow'.state))
           /\ \/ sharedRow'.version = sharedRow.version + 1
              \/ sharedRow' = sharedRow /\ quotaReset' = quotaReset /\ coolWork[w].kind = "reset"
<1> DEFINE op == coolWork[w]
<1>1. /\ op.kind \in Clears \union {"reset"} /\ op.stage = "mutate"
      /\ sharedRow' = ClearedRow(sharedRow, op)
      /\ quotaReset' = (quotaReset \/ sharedRow.state.quota = "exceeded")
  BY DEF MutateClear
<1>2. /\ sharedRow \in CredentialRows /\ op.at \in Nat \ {0} /\ quotaReset \in BOOLEAN
      /\ quotaReset => Reset(sharedRow.state)
  BY <1>1, Known DEF OperationInv, CooldownInv, RowInv
<1> HIDE DEF op
<1>3. /\ sharedRow' \in CredentialRows /\ sharedRow'.state.quota # "exceeded"
      /\ sharedRow.state.quota = "exceeded" \/ Reset(sharedRow.state) => Reset(sharedRow'.state)
      /\ \/ sharedRow'.version = sharedRow.version + 1
         \/ sharedRow' = sharedRow /\ sharedRow.state.quota # "exceeded" /\ op.kind = "reset"
  BY <1>1, <1>2, RowClearedShape
<1> QED
  BY <1>1, <1>2, <1>3 DEF op

LEMMA MutateClearKeeps ==
    ASSUME CooldownInv, NEW w \in CoolActors, MutateClear(w)
    PROVE  CooldownInv'
<1> DEFINE op == coolWork[w]
           s == saving[w[1]]
           o == [kind |-> op.kind, stage |-> "adopt", then |-> op.then, at |-> op.at, copy |-> sharedRow']
<1>1. /\ op.kind \in Clears \union {"reset"} /\ op.stage = "mutate"
      /\ coolWork' = [coolWork EXCEPT ![w] = o]
      /\ UNCHANGED <<coolNow, localCopy, cooling, saving, coolBudget>>
  BY DEF MutateClear, Work
<1>2. /\ sharedRow' \in CredentialRows /\ quotaReset' \in BOOLEAN /\ (quotaReset' => Reset(sharedRow'.state))
      /\ \/ sharedRow'.version = sharedRow.version + 1
         \/ sharedRow' = sharedRow /\ quotaReset' = quotaReset /\ op.kind = "reset"
  BY MutateClearShape
<1>3. /\ sharedRow.version \in Nat /\ op.at \in Nat \ {0}
      /\ coolBudget \in [reports : Nat, controls : Nat, errors : Nat]
      /\ CopyInv(localCopy[w[1]], sharedRow, quotaReset) /\ SavingInv(s, localCopy[w[1]], sharedRow, quotaReset)
      /\ cooling[w[1]] \in BOOLEAN
      /\ w \in CoolWorkers \/ w = Applier(w[1])
      /\ w \in CoolWorkers => WorkerInv(op)
      /\ w = Applier(w[1]) => ApplierInv(op, cooling[w[1]])
  BY <1>1, Known, Actors DEF OperationInv, CredentialRows
<1>4. /\ Updated(coolWork, coolWork', w, o) /\ o.kind = op.kind /\ o.stage = "adopt" /\ o.then = op.then
      /\ o.at = op.at /\ o.copy = sharedRow'
  BY <1>1, UpdatedShape
<1> HIDE DEF o, op
<1>5. OperationInv(o, sharedRow', quotaReset', coolNow) /\ ~Storing(o)
  <2>1. sharedRow'.version <= sharedRow'.version /\ SameQuota(sharedRow'.state, sharedRow'.state)
    BY <1>2 DEF CredentialRows, SameQuota
  <2> QED
    BY <1>1, <1>2, <1>3, <1>4, <2>1 DEF OperationInv, Storing, Adopting, Clears
<1>6. \/ w \in CoolWorkers /\ WorkerInv(o)
      \/ w = Applier(w[1]) /\ ApplierInv(o, cooling[w[1]])
  BY <1>3, <1>4 DEF WorkerInv, ApplierInv
<1>7. CASE sharedRow'.version = sharedRow.version + 1
  <2>1. sharedRow.version < sharedRow'.version
    BY <1>3, <1>7
  <2> QED
    BY <1>1, <1>2, <1>4, <1>5, <1>6, <2>1, RowStep
<1>8. CASE sharedRow' = sharedRow /\ quotaReset' = quotaReset /\ op.kind = "reset"
  <2>1. LateInv(s, o, sharedRow, quotaReset)
    BY <1>2, <1>4, <1>5, <1>8 DEF LateInv, SameWindow
  <2>2. /\ Updated(localCopy, localCopy', w[1], localCopy[w[1]])
        /\ Updated(cooling, cooling', w[1], cooling[w[1]])
    BY <1>1, UpdatedShape
  <2>3. OperationInv(o, sharedRow, quotaReset, coolNow) /\ coolWork[w].kind # "fence"
    BY <1>5, <1>8 DEF op
  <2> QED
    BY <1>1, <1>3, <1>4, <1>6, <1>8, <2>1, <2>2, <2>3, CopyStep
<1> QED
  BY <1>2, <1>7, <1>8

\* A fence takes the credential whenever a snapshot of it is being saved.
LEMMA SelectClearKeeps ==
    ASSUME CooldownInv, NEW w \in CoolActors, SelectClear(w)
    PROVE  CooldownInv'
<1> DEFINE h == w[1]
           op == coolWork[w]
           l == localCopy[h]
           fencing == op.kind = "fence" /\ saving[h].kind = "write"
           s == IF fencing THEN [saving[h] EXCEPT !.fenced = TRUE] ELSE saving[h]
<1>1. /\ op.kind \in Clears /\ op.stage = "select"
      /\ UNCHANGED <<coolNow, sharedRow, localCopy, coolBudget, quotaReset>>
      /\ saving' = IF fencing THEN [saving EXCEPT ![h].fenced = TRUE] ELSE saving
  BY DEF SelectClear, MarkSaves
<1>2. /\ coolBudget \in [reports : Nat, controls : Nat, errors : Nat] /\ coolNow \in Nat \ {0}
      /\ CopyInv(l, sharedRow, quotaReset) /\ SavingInv(saving[h], l, sharedRow, quotaReset)
      /\ cooling[h] \in BOOLEAN
      /\ w \in CoolWorkers \/ w = Applier(h)
      /\ w \in CoolWorkers => WorkerInv(op)
      /\ w = Applier(h) => ApplierInv(op, cooling[h])
      /\ saving[h].kind = "write" /\ w = Applier(h) => FencedInv(saving[h], op, sharedRow, coolBudget.errors)
  BY Known, Actors
<1>3. fencing => /\ w = Applier(h) /\ ~cooling[h]
  BY <1>2 DEF WorkerInv, ApplierInv
<1>4. fencing => saving[h] \in Snapshots
  BY <1>2 DEF SavingInv, WriteInv
<1>5. /\ Updated(saving, saving', h, s)
      /\ s.kind = saving[h].kind
      /\ SavingInv(s, l, sharedRow, quotaReset)
  <2>1. CASE fencing
    <3>1. /\ s \in Snapshots /\ s.kind = "write" /\ s.version = saving[h].version /\ s.state = saving[h].state
      BY <1>4, <2>1 DEF Snapshots
    <3>2. saving' = [saving EXCEPT ![h] = s]
      BY <1>1, <2>1
    <3>3. WriteInv(saving[h], l, sharedRow, quotaReset)
      BY <1>2, <2>1 DEF SavingInv
    <3> HIDE DEF s
    <3>4. SavingInv(s, l, sharedRow, quotaReset)
      BY <3>1, <3>3 DEF SavingInv, WriteInv
    <3> QED
      BY <2>1, <3>1, <3>2, <3>4, UpdatedShape
  <2>2. CASE ~fencing
    BY <1>1, <1>2, <2>2, UpdatedShape
  <2> QED
    BY <2>1, <2>2
<1>6. PICK o, c : /\ c \in BOOLEAN /\ coolWork' = [coolWork EXCEPT ![w] = o] /\ Updated(cooling, cooling', h, c)
                  /\ OperationInv(o, sharedRow, quotaReset, coolNow) /\ ~Adopting(o) /\ ~Storing(o)
                  /\ \/ w \in CoolWorkers /\ WorkerInv(o) /\ c = cooling[h]
                     \/ w = Applier(h) /\ ApplierInv(o, c)
                  /\ fencing => o.kind = "fence" /\ o.stage = "mutate"
  <2>1. CASE Selected(h, op.kind)
    <3> DEFINE o == Control(op.kind, "mutate", op.then)
    <3>1. coolWork' = [coolWork EXCEPT ![w] = o] /\ cooling' = cooling
      BY <2>1 DEF SelectClear, Work
    <3>2. o.kind = op.kind /\ o.stage = "mutate" /\ o.then = op.then /\ o.at \in Nat \ {0}
      BY <1>2, ControlShape
    <3> HIDE DEF o
    <3>3. OperationInv(o, sharedRow, quotaReset, coolNow) /\ ~Adopting(o) /\ ~Storing(o)
      BY <1>1, <3>2, PlainOperation DEF Storing, Clears
    <3>4. \/ w \in CoolWorkers /\ WorkerInv(o)
          \/ w = Applier(h) /\ ApplierInv(o, cooling[h])
      BY <1>2, <3>2 DEF WorkerInv, ApplierInv
    <3>5. Updated(cooling, cooling', h, cooling[h])
      BY <3>1, UpdatedShape
    <3> QED
      BY <1>2, <3>1, <3>2, <3>3, <3>4, <3>5
  <2>2. CASE ~Selected(h, op.kind)
    <3>1. Following(w, FALSE)
      BY <2>2 DEF SelectClear
    <3>2. ~fencing
      BY <1>3, <2>2 DEF Selected, CoolNone
    <3> HIDE DEF fencing
    <3> QED
      BY <1>1, <3>1, <3>2, FollowingShape
  <2> QED
    BY <2>1, <2>2
<1>7. /\ Updated(coolWork, coolWork', w, o) /\ Updated(localCopy, localCopy', h, l)
      /\ LateInv(s, o, sharedRow, quotaReset)
  BY <1>1, <1>6, UpdatedShape DEF LateInv
<1>8. ASSUME s.kind = "write", w = Applier(h) PROVE FencedInv(s, o, sharedRow, coolBudget'.errors)
  <2>1. CASE fencing
    BY <1>6, <2>1 DEF FencedInv
  <2>2. CASE ~fencing
    <3>1. FencedInv(saving[h], op, sharedRow, coolBudget.errors)
      BY <1>2, <1>8, <2>2
    <3> QED
      BY <1>1, <2>2, <3>1 DEF FencedInv
  <2> QED
    BY <2>1, <2>2
<1>9. /\ s.kind = "saved" => s = saving[h]
      /\ w \in CoolWorkers => s = saving[h]
  <2>1. fencing => s.kind = "write"
    BY <1>5
  <2>2. w \in CoolWorkers => op.kind # "fence"
    BY <1>2 DEF WorkerInv
  <2> QED
    BY <2>1, <2>2
<1>10. coolBudget' \in [reports : Nat, controls : Nat, errors : Nat] /\ coolBudget'.errors = coolBudget.errors
  BY <1>1, <1>2
<1> HIDE DEF s, fencing, l, op
<1> QED
  BY <1>1, <1>2, <1>5, <1>6, <1>7, <1>8, <1>9, <1>10, HomeStep

\* A step of the background worker that leaves the row alone.
LEMMA SavingStep ==
    ASSUME CooldownInv, NEW h \in CoolHomes, NEW l, NEW s,
           UNCHANGED <<sharedRow, quotaReset, coolNow, cooling, coolWork>>,
           coolBudget' \in [reports : Nat, controls : Nat, errors : Nat],
           coolBudget'.errors = 0 => coolBudget.errors = 0,
           Updated(localCopy, localCopy', h, l), Updated(saving, saving', h, s),
           CopyInv(l, sharedRow, quotaReset), SavingInv(s, l, sharedRow, quotaReset),
           s.kind = "none" \/ s.kind = "rejected" \/ (s.kind = "write" /\ ~s.fenced)
    PROVE  CooldownInv'
<1> DEFINE w == Applier(h)
           o == coolWork[w]
<1>1. w \in CoolActors /\ w[1] = h /\ w = Applier(w[1])
  BY Appliers
<1> HIDE DEF w
<1>2. /\ OperationInv(o, sharedRow, quotaReset, coolNow) /\ ApplierInv(o, cooling[h])
      /\ cooling[h] \in BOOLEAN
  BY <1>1, Known
<1>3. Updated(coolWork, coolWork', w, o) /\ Updated(cooling, cooling', h, cooling[h])
  BY UpdatedShape
<1>4. s.kind = "write" => FencedInv(s, o, sharedRow, coolBudget'.errors)
  BY DEF FencedInv
<1>5. s.kind # "saved"
  OBVIOUS
<1> HIDE DEF o
<1> QED
  BY <1>1, <1>2, <1>3, <1>4, <1>5, HomeStep

LEMMA HomeKnown ==
    ASSUME CooldownInv, NEW h \in CoolHomes
    PROVE  /\ sharedRow \in CredentialRows /\ (quotaReset => Reset(sharedRow.state))
           /\ coolBudget \in [reports : Nat, controls : Nat, errors : Nat]
           /\ CopyInv(localCopy[h], sharedRow, quotaReset)
           /\ SavingInv(saving[h], localCopy[h], sharedRow, quotaReset)
           /\ localCopy[h] \in CredentialCopies
BY DEF CooldownInv, RowInv, HomeInv, CopyInv

LEMMA NothingSaving ==
    ASSUME NEW l, NEW row, NEW closed
    PROVE  /\ SavingInv(CoolNone, l, row, closed) /\ CoolNone.kind = "none"
           /\ SavingInv([kind |-> "rejected"], l, row, closed)
BY DEF SavingInv, CoolNone

LEMMA BeginSaveKeeps ==
    ASSUME CooldownInv, NEW h \in CoolHomes, BeginSave(h)
    PROVE  CooldownInv'
<1> DEFINE l == localCopy[h]
           s == [kind |-> "write", version |-> l.version, state |-> l.state, fenced |-> FALSE]
<1>1. /\ UNCHANGED <<sharedRow, quotaReset, coolNow, cooling, coolWork, localCopy, coolBudget>>
      /\ saving[h] = CoolNone
      /\ saving' = IF l.projection THEN saving ELSE [saving EXCEPT ![h] = s]
  BY DEF BeginSave
<1>2. /\ CopyInv(l, sharedRow, quotaReset) /\ l \in CredentialCopies /\ sharedRow \in CredentialRows
      /\ coolBudget \in [reports : Nat, controls : Nat, errors : Nat]
  BY HomeKnown
<1>3. Updated(localCopy, localCopy', h, l)
  BY <1>1, UpdatedShape
<1>4. CASE l.projection
  <2>1. Updated(saving, saving', h, CoolNone)
    BY <1>1, <1>4, UpdatedShape
  <2>2. SavingInv(CoolNone, l, sharedRow, quotaReset) /\ CoolNone.kind = "none"
    BY NothingSaving
  <2> HIDE DEF l
  <2> QED
    BY <1>1, <1>2, <1>3, <2>1, <2>2, SavingStep
<1>5. CASE ~l.projection
  <2>1. Updated(saving, saving', h, s) /\ s.kind = "write" /\ ~s.fenced
    BY <1>1, <1>5, UpdatedShape
  <2>2. s \in Snapshots /\ s.version = l.version /\ s.state = l.state /\ l.version \in Nat
    BY <1>2 DEF Snapshots, CredentialCopies
  <2> HIDE DEF s
  <2>3. SavingInv(s, l, sharedRow, quotaReset)
    BY <1>2, <1>5, <2>1, <2>2 DEF SavingInv, WriteInv, CopyInv, SameWindow
  <2> HIDE DEF l
  <2> QED
    BY <1>1, <1>2, <1>3, <2>1, <2>3, SavingStep
<1> QED
  BY <1>4, <1>5

LEMMA EndSaveKeeps ==
    ASSUME CooldownInv, NEW h \in CoolHomes, CommitSaveFails(h) \/ FinishSave(h) \/ AdoptAuthoritative(h)
    PROVE  CooldownInv'
<1> DEFINE l == localCopy[h]
           s == saving[h]
<1>0. /\ sharedRow \in CredentialRows /\ (quotaReset => Reset(sharedRow.state))
      /\ coolBudget \in [reports : Nat, controls : Nat, errors : Nat]
      /\ CopyInv(l, sharedRow, quotaReset) /\ SavingInv(s, l, sharedRow, quotaReset)
      /\ l \in CredentialCopies
  BY HomeKnown
<1>1. /\ UNCHANGED <<sharedRow, quotaReset, coolNow, cooling, coolWork>>
      /\ Updated(saving, saving', h, CoolNone)
  BY UpdatedShape DEF CommitSaveFails, FinishSave, AdoptAuthoritative
<1>2. /\ coolBudget' \in [reports : Nat, controls : Nat, errors : Nat]
      /\ coolBudget'.errors = 0 => coolBudget.errors = 0
  BY <1>0, BudgetShape DEF CommitSaveFails, FinishSave, AdoptAuthoritative
<1>3. PICK m : CopyInv(m, sharedRow, quotaReset) /\ Updated(localCopy, localCopy', h, m)
  <2>1. CASE CommitSaveFails(h)
    BY <1>0, <2>1, UpdatedShape DEF CommitSaveFails
  <2>2. CASE FinishSave(h)
    <3> DEFINE m == [l EXCEPT !.version = IF @ = s.from THEN s.version ELSE @]
    <3>1. localCopy' = [localCopy EXCEPT ![h] = m] /\ s.kind = "saved"
      BY <2>2 DEF FinishSave
    <3>2. SavedInv(s, l, sharedRow, quotaReset)
      BY <1>0, <3>1 DEF SavingInv
    <3>3. /\ m \in CredentialCopies /\ m.state = l.state /\ m.projection = l.projection
          /\ m.version = IF l.version = s.from THEN s.version ELSE l.version
      BY <1>0, <3>2 DEF CredentialCopies, SavedInv
    <3> HIDE DEF m
    <3>4. CopyInv(m, sharedRow, quotaReset)
      BY <1>0, <3>2, <3>3 DEF CopyInv, SavedInv
    <3> QED
      BY <3>1, <3>4, UpdatedShape
  <2>3. CASE AdoptAuthoritative(h)
    <3> DEFINE t == MergePersistedModelState(sharedRow.state, l.state)
               m == AdoptedAuthoritative(l, sharedRow)
    <3>1. localCopy' = [localCopy EXCEPT ![h] = m]
      BY <2>3 DEF AdoptAuthoritative
    <3>2. /\ l.version \in Nat /\ sharedRow.version \in Nat /\ l.version <= sharedRow.version
          /\ l.state \in ModelStates /\ sharedRow.state \in ModelStates
      BY <1>0 DEF CopyInv, CredentialCopies, CredentialRows
    <3>3. /\ t \in ModelStates
          /\ sharedRow.state.quota = "exceeded" => SameQuota(t, sharedRow.state)
          /\ Reset(sharedRow.state) => Reset(t)
      BY <3>2, MergeShape
    <3>4. m = [version |-> sharedRow.version, state |-> t, projection |-> FALSE]
      BY <3>2 DEF AdoptedAuthoritative
    <3> HIDE DEF t
    <3>5. m \in CredentialCopies /\ m.version = sharedRow.version /\ m.state = t
      BY <3>2, <3>3, <3>4 DEF CredentialCopies
    <3> HIDE DEF m
    <3>6. CopyInv(m, sharedRow, quotaReset)
      BY <1>0, <3>2, <3>3, <3>5 DEF CopyInv, SameWindow, SameQuota
    <3> QED
      BY <3>1, <3>6, UpdatedShape
  <2> QED
    BY <2>1, <2>2, <2>3
<1>4. SavingInv(CoolNone, m, sharedRow, quotaReset) /\ CoolNone.kind = "none"
  BY NothingSaving
<1> HIDE DEF l, s
<1> QED
  BY <1>1, <1>2, <1>3, <1>4, SavingStep

\* A save that is accepted: what the Home has at the version that was saved passes for the new one.
LEMMA SaveAcceptedShape ==
    ASSUME CooldownInv, NEW h \in CoolHomes, CommitSave(h), SaveAccepted(sharedRow, saving[h])
    PROVE  LET s == saving[h]
           IN /\ sharedRow' \in CredentialRows /\ quotaReset' = quotaReset
              /\ sharedRow' = sharedRow \/ sharedRow'.version = sharedRow.version + 1
              /\ sharedRow'.state = s.state /\ SameWindow(s.state, sharedRow.state)
              /\ quotaReset => Reset(s.state)
              /\ s.version = sharedRow.version
              /\ ~localCopy[h].projection => SameWindow(s.state, localCopy[h].state)
              /\ sharedRow.version <= localCopy[h].version
              /\ saving' = [saving EXCEPT ![h] = [kind |-> "saved", from |-> s.version,
                                                  version |-> sharedRow'.version]]
<1> DEFINE s == saving[h]
<1>1. /\ s.kind = "write" /\ quotaReset' = quotaReset
      /\ sharedRow' = IF s.state = sharedRow.state THEN sharedRow
                      ELSE [version |-> sharedRow.version + 1, state |-> s.state]
      /\ saving' = [saving EXCEPT ![h] = [kind |-> "saved", from |-> s.version, version |-> sharedRow'.version]]
  BY DEF CommitSave
<1>2. sharedRow \in CredentialRows /\ WriteInv(s, localCopy[h], sharedRow, quotaReset)
  BY <1>1, HomeKnown DEF SavingInv
<1>3. s.version = sharedRow.version
  BY DEF SaveAccepted
<1>4. s.state \in ModelStates /\ sharedRow.version \in Nat
  BY <1>2 DEF WriteInv, Snapshots, CredentialRows
<1>5. sharedRow' \in CredentialRows
  BY <1>1, <1>2, <1>4 DEF CredentialRows
<1> QED
  BY <1>1, <1>2, <1>3, <1>5 DEF WriteInv

LEMMA CommitSaveKeeps ==
    ASSUME CooldownInv, NEW h \in CoolHomes, CommitSave(h)
    PROVE  CooldownInv'
<1> DEFINE s == saving[h]
           l == localCopy[h]
<1>0. /\ sharedRow \in CredentialRows /\ (quotaReset => Reset(sharedRow.state))
      /\ coolBudget \in [reports : Nat, controls : Nat, errors : Nat]
      /\ CopyInv(l, sharedRow, quotaReset) /\ sharedRow.version \in Nat /\ l.version \in Nat
  BY HomeKnown DEF CredentialRows, CredentialCopies
<1>1. UNCHANGED <<coolNow, localCopy, cooling, coolWork, coolBudget, quotaReset>>
  BY DEF CommitSave
<1>2. CASE ~SaveAccepted(sharedRow, s)
  <2>1. saving' = [saving EXCEPT ![h] = [kind |-> "rejected"]] /\ UNCHANGED sharedRow
    BY <1>2 DEF CommitSave
  <2> DEFINE n == [kind |-> "rejected"]
  <2>2. Updated(saving, saving', h, n) /\ Updated(localCopy, localCopy', h, l)
    BY <1>1, <2>1, UpdatedShape
  <2>3. SavingInv(n, l, sharedRow, quotaReset) /\ n.kind = "rejected"
    BY NothingSaving
  <2> HIDE DEF l, n
  <2> QED
    BY <1>0, <1>1, <2>1, <2>2, <2>3, SavingStep
<1>3. CASE SaveAccepted(sharedRow, s)
  <2> DEFINE n == [kind |-> "saved", from |-> s.version, version |-> sharedRow'.version]
  <2>1. /\ sharedRow' \in CredentialRows
        /\ sharedRow' = sharedRow \/ sharedRow'.version = sharedRow.version + 1
        /\ sharedRow'.state = s.state /\ SameWindow(s.state, sharedRow.state)
        /\ quotaReset => Reset(s.state)
        /\ s.version = sharedRow.version
        /\ ~l.projection => SameWindow(s.state, l.state)
        /\ sharedRow.version <= l.version
        /\ saving' = [saving EXCEPT ![h] = n]
    BY <1>3, SaveAcceptedShape
  <2>2. n.kind = "saved" /\ n.from = sharedRow.version /\ n.version = sharedRow'.version
    BY <2>1
  <2> HIDE DEF n, s, l
  <2>3. /\ DOMAIN saving' = CoolHomes
        /\ \A g \in CoolHomes : saving'[g] = IF g = h THEN n ELSE saving[g]
    BY <2>1, UpdatedShape DEF CooldownInv, Updated
  <2>4. RowInv'
    BY <1>1, <2>1 DEF CooldownInv, RowInv
  <2>5. sharedRow'.version \in Nat /\ sharedRow.version <= sharedRow'.version
        /\ (sharedRow' # sharedRow => sharedRow.version < sharedRow'.version)
    BY <1>0, <2>1 DEF CredentialRows
  <2>6. ASSUME NEW g \in CoolHomes
        PROVE  /\ CopyInv(localCopy[g], sharedRow', quotaReset)
               /\ SavingInv(saving[g], localCopy[g], sharedRow', quotaReset)
               /\ sharedRow' # sharedRow =>
                     /\ saving[g].kind = "saved" => \A o : LateInv(saving[g], o, sharedRow', quotaReset)
                     /\ saving[g].kind = "write" => \A o, e : FencedInv(saving[g], o, sharedRow', e)
    <3>1. CopyInv(localCopy[g], sharedRow, quotaReset) /\ SavingInv(saving[g], localCopy[g], sharedRow, quotaReset)
      BY HomeKnown
    <3> QED
      BY <1>0, <2>1, <2>5, <3>1, NewerRow
  <2>7. SavedInv(n, l, sharedRow', quotaReset)
    <3>1. CopyInv(l, sharedRow, quotaReset)
      BY <1>0
    <3>2. l.version = sharedRow.version /\ quotaReset => Reset(l.state)
      BY <3>1 DEF CopyInv
    <3>3. ~l.projection => SameWindow(l.state, sharedRow'.state)
      BY <2>1 DEF SameWindow
    <3> QED
      BY <1>0, <2>1, <2>2, <2>5, <3>2, <3>3 DEF SavedInv
  <2>8. ASSUME NEW g \in CoolHomes PROVE HomeInv(g)'
    <3>1. cooling[g] \in BOOLEAN
      BY DEF CooldownInv, HomeInv
    <3>2. SavingInv(n, l, sharedRow', quotaReset)
      BY <2>2, <2>7 DEF SavingInv
    <3> QED
      BY <1>1, <2>3, <2>6, <3>1, <3>2 DEF HomeInv, l
  <2>9. ASSUME NEW o, OperationInv(o, sharedRow, quotaReset, coolNow)
        PROVE  OperationInv(o, sharedRow', quotaReset, coolNow) /\ LateInv(n, o, sharedRow', quotaReset)
    <3>1. OperationInv(o, sharedRow', quotaReset, coolNow)
      BY <1>0, <2>1, <2>5, <2>9, NewerRow
    <3>2. ASSUME Adopting(o), o.copy.version = sharedRow.version
          PROVE  SameWindow(o.copy.state, sharedRow'.state) /\ (quotaReset => Reset(o.copy.state))
      <4>1. SameQuota(o.copy.state, sharedRow.state)
        BY <2>9, <3>2 DEF OperationInv
      <4> QED
        BY <1>0, <2>1, <4>1 DEF SameQuota, SameWindow, Reset
    <3>3. Storing(o) /\ o.copy.version = sharedRow.version /\ quotaReset => Reset(o.copy.state)
      BY <2>9 DEF OperationInv
    <3> QED
      BY <2>2, <3>1, <3>2, <3>3 DEF LateInv
  <2>10. ASSUME NEW v \in CoolActors PROVE ActorInv(v)'
    <3>1. ActorInv(v) /\ v[1] \in CoolHomes
      BY Actors DEF CooldownInv
    <3>2. /\ OperationInv(coolWork[v], sharedRow', quotaReset, coolNow)
          /\ LateInv(n, coolWork[v], sharedRow', quotaReset)
      BY <2>9, <3>1 DEF ActorInv
    <3>3. saving'[v[1]].kind = "saved" => LateInv(saving'[v[1]], coolWork[v], sharedRow', quotaReset)
      BY <2>3, <2>6, <3>1, <3>2 DEF ActorInv
    <3>4. saving'[v[1]].kind = "write" /\ v = Applier(v[1]) =>
             FencedInv(saving'[v[1]], coolWork[v], sharedRow', coolBudget.errors)
      BY <2>2, <2>3, <2>6, <3>1 DEF ActorInv
    <3> QED
      BY <1>1, <3>1, <3>2, <3>3, <3>4 DEF ActorInv
  <2> QED
    BY <1>1, <2>3, <2>4, <2>8, <2>10 DEF CooldownInv
<1> QED
  BY <1>2, <1>3

LEMMA CoolTickKeeps ==
    ASSUME CooldownInv, CoolTick
    PROVE  CooldownInv'
<1>1. /\ coolNow \in Nat \ {0} /\ coolNow' = coolNow + 1
      /\ UNCHANGED <<sharedRow, localCopy, cooling, saving, coolWork, coolBudget, quotaReset>>
  BY DEF CoolTick, CooldownInv, RowInv
<1>2. RowInv'
  BY <1>1 DEF CooldownInv, RowInv
<1>3. ASSUME NEW o, OperationInv(o, sharedRow, quotaReset, coolNow)
      PROVE  OperationInv(o, sharedRow, quotaReset, coolNow')
  <2>1. o.kind = "result" => o.result \in Results /\ o.result.at <= coolNow'
    BY <1>1, <1>3 DEF OperationInv, Results
  <2> QED
    BY <1>3, <2>1 DEF OperationInv
<1>4. ASSUME NEW v \in CoolActors PROVE ActorInv(v)'
  <2>1. ActorInv(v)
    BY DEF CooldownInv
  <2> QED
    BY <1>1, <1>3, <2>1 DEF ActorInv
<1>5. ASSUME NEW g \in CoolHomes PROVE HomeInv(g)'
  BY <1>1 DEF CooldownInv, HomeInv
<1> QED
  BY <1>1, <1>2, <1>4, <1>5 DEF CooldownInv

-------------------------------------------------------------------------------
(* The invariant holds, and with it the properties. *)

LEMMA CooldownInitInv == CooldownInit => CooldownInv
<1> SUFFICES ASSUME CooldownInit PROVE CooldownInv
  OBVIOUS
<1>0. /\ coolNow = 1 /\ quotaReset = FALSE
      /\ sharedRow = [version |-> 1, state |-> Clean(0)]
      /\ localCopy = [h \in CoolHomes |-> [version |-> 1, state |-> Clean(0), projection |-> TRUE]]
      /\ cooling = [h \in CoolHomes |-> TRUE]
      /\ saving = [h \in CoolHomes |-> CoolNone]
      /\ coolWork = [w \in CoolActors |-> CoolNone]
      /\ coolBudget = [reports |-> 0, controls |-> 0, errors |-> 0]
  BY DEF CooldownInit
<1>1. Clean(0) \in ModelStates
  BY CleanShape
<1>2. RowInv
  <2>1. sharedRow \in CredentialRows
    BY <1>0, <1>1 DEF CredentialRows
  <2>2. coolBudget \in [reports : Nat, controls : Nat, errors : Nat]
    BY <1>0
  <2>3. coolNow \in Nat \ {0}
    BY <1>0
  <2>4. quotaReset \in BOOLEAN /\ ~quotaReset
    BY <1>0, Zenon
  <2> QED
    BY <2>1, <2>2, <2>3, <2>4 DEF RowInv
<1>3. ASSUME NEW h \in CoolHomes PROVE HomeInv(h)
  <2> DEFINE l == [version |-> 1, state |-> Clean(0), projection |-> TRUE]
  <2>1. l \in CredentialCopies /\ l.version = 1 /\ l.projection
    BY <1>1 DEF CredentialCopies
  <2>2. localCopy[h] = l /\ saving[h] = CoolNone /\ cooling[h] \in BOOLEAN
    BY <1>0
  <2> HIDE DEF l
  <2>3. CopyInv(l, sharedRow, quotaReset)
    BY <1>0, <2>1 DEF CopyInv
  <2> QED
    BY <2>2, <2>3, NothingSaving DEF HomeInv
<1>4. ASSUME NEW w \in CoolActors PROVE ActorInv(w)
  <2>1. coolWork[w] = CoolNone /\ saving[w[1]] = CoolNone
    BY <1>0, Actors
  <2> QED
    BY <2>1, NoOperation DEF ActorInv, CoolNone
<1> QED
  BY <1>0, <1>2, <1>3, <1>4 DEF CooldownInv

LEMMA CooldownStepInv == CooldownInv /\ [CooldownNext]_coolVars => CooldownInv'
<1> SUFFICES ASSUME CooldownInv, [CooldownNext]_coolVars PROVE CooldownInv'
  OBVIOUS
<1>1. ASSUME NEW w \in CoolWorkers, NEW kind \in ResultKinds \ {"quota"}, Report(w, kind, 0)
      PROVE  CooldownInv'
  BY <1>1, CooldownAssumption, ReportKeeps
<1>2. ASSUME NEW w \in CoolWorkers, NEW delay \in HintDelays,
             Report(w, "quota", IF delay = 0 THEN 0 ELSE coolNow + delay)
      PROVE  CooldownInv'
  <2> DEFINE hint == IF delay = 0 THEN 0 ELSE coolNow + delay
  <2>1. hint \in Nat
    BY CooldownAssumption DEF CooldownInv, RowInv
  <2>2. Report(w, "quota", hint)
    BY <1>2
  <2> HIDE DEF hint
  <2> QED
    BY <2>1, <2>2, ReportKeeps
<1>3. ASSUME NEW w \in CoolWorkers,
             StageResult(w) \/ MutateResult(w) \/ MutateResultFails(w) \/ AdoptResult(w) \/ StartReset(w)
      PROVE  CooldownInv'
  BY <1>3, StageResultKeeps, MutateResultKeeps, AdoptResultKeeps, StartResetKeeps
<1>4. ASSUME NEW w \in CoolActors,
             SelectClear(w) \/ MutateClear(w) \/ MutateClearFails(w) \/ AdoptClear(w) \/ ClearLocal(w)
      PROVE  CooldownInv'
  BY <1>4, SelectClearKeeps, MutateClearKeeps, ClearFailsKeeps, AdoptClearKeeps, ClearLocalKeeps
<1>5. ASSUME NEW h \in CoolHomes, StartReload(h) \/ SwitchCooling(h) \/ ReloadRow(h) \/ StoreMerged(h)
      PROVE  CooldownInv'
  BY <1>5, StartReloadKeeps, ReloadRowKeeps, StoreMergedKeeps
<1>6. ASSUME NEW h \in CoolHomes,
             BeginSave(h) \/ CommitSave(h) \/ CommitSaveFails(h) \/ FinishSave(h) \/ AdoptAuthoritative(h)
      PROVE  CooldownInv'
  BY <1>6, BeginSaveKeeps, CommitSaveKeeps, EndSaveKeeps
<1>7. CASE UNCHANGED coolVars
  BY <1>7 DEF coolVars, CooldownInv, RowInv, ActorInv, HomeInv
<1> QED
  BY <1>1, <1>2, <1>3, <1>4, <1>5, <1>6, <1>7, CoolTickKeeps DEF CooldownNext

LEMMA SpecCooldownInv == CooldownSpec => []CooldownInv
BY CooldownInitInv, CooldownStepInv, PTL DEF CooldownSpec

LEMMA OtherActionsKeepRow ==
    ASSUME CooldownInv, [CooldownNext]_coolVars, sharedRow' # sharedRow
    PROVE  \/ \E w \in CoolWorkers : MutateResult(w)
           \/ \E w \in CoolActors : MutateClear(w)
           \/ \E h \in CoolHomes : CommitSave(h)
BY DEF CooldownNext, coolVars, Report, StageResult, MutateResultFails, AdoptResult, StartReset, SelectClear,
       MutateClearFails, AdoptClear, ClearLocal, StartReload, SwitchCooling, ReloadRow, StoreMerged,
       BeginSave, CommitSaveFails, FinishSave, AdoptAuthoritative, CoolTick

\* An open quota window keeps its end and its level, and what a clearing closed stays closed, for
\* any Homes, requests, resets, switches, late saves and database errors.
THEOREM WindowsHold == CooldownSpec => QuotaWindowsHold
<1> DEFINE Kept == sharedRow.state.quota = "exceeded" /\ sharedRow.state.recover > coolNow
                      /\ sharedRow'.state.quota = "exceeded"
                   => /\ sharedRow'.state.recover >= sharedRow.state.recover
                      /\ sharedRow'.state.level = sharedRow.state.level
           Held == quotaReset => sharedRow.state.quota # "exceeded"
<1>1. CooldownInv /\ [CooldownNext]_coolVars => [Kept]_coolVars
  <2> SUFFICES ASSUME CooldownInv, [CooldownNext]_coolVars PROVE Kept
    OBVIOUS
  <2>0. sharedRow.state.recover \in Nat
    BY DEF CooldownInv, RowInv, CredentialRows, ModelStates
  <2>1. CASE sharedRow' = sharedRow
    BY <2>0, <2>1
  <2>2. ASSUME NEW w \in CoolWorkers, MutateResult(w) PROVE Kept
    BY <2>2, MutateResultShape
  <2>3. ASSUME NEW w \in CoolActors, MutateClear(w) PROVE Kept
    BY <2>3, MutateClearShape
  <2>4. ASSUME NEW h \in CoolHomes, CommitSave(h) PROVE Kept
    <3>1. CASE ~SaveAccepted(sharedRow, saving[h])
      BY <2>0, <2>4, <3>1 DEF CommitSave
    <3>2. CASE SaveAccepted(sharedRow, saving[h])
      <4>1. sharedRow'.state = saving[h].state /\ SameWindow(saving[h].state, sharedRow.state)
        BY <2>4, <3>2, SaveAcceptedShape
      <4> QED
        BY <2>0, <4>1 DEF SameWindow
    <3> QED
      BY <3>1, <3>2
  <2> QED
    BY <2>1, <2>2, <2>3, <2>4, OtherActionsKeepRow
<1>2. CooldownInv => Held
  BY DEF CooldownInv, RowInv, Reset
<1> QED
  BY <1>1, <1>2, SpecCooldownInv, PTL DEF CooldownSpec, QuotaWindowsHold, WindowNeverShortened, ResetsHold

\* Without database errors, no snapshot that its Home fenced is written after the fence.
THEOREM FencesHold == CooldownSpec => SwitchFencesSaves
<1> DEFINE Fenced == \A h \in CoolHomes :
                        /\ CommitSave(h) /\ saving[h].fenced
                        /\ coolWork[Applier(h)].kind # "fence" /\ coolBudget.errors = 0
                        => sharedRow' = sharedRow
<1>1. CooldownInv => Fenced
  <2> SUFFICES ASSUME CooldownInv, NEW h \in CoolHomes, CommitSave(h), saving[h].fenced,
                      coolWork[Applier(h)].kind # "fence", coolBudget.errors = 0
               PROVE  sharedRow' = sharedRow
    OBVIOUS
  <2>1. saving[h].kind = "write"
    BY DEF CommitSave
  <2>2. FencedInv(saving[h], coolWork[Applier(h)], sharedRow, coolBudget.errors)
    <3> DEFINE w == Applier(h)
    <3>1. w \in CoolActors /\ w[1] = h /\ w = Applier(w[1])
      BY Appliers
    <3> HIDE DEF w
    <3>2. FencedInv(saving[h], coolWork[w], sharedRow, coolBudget.errors)
      BY <2>1, <3>1, Known
    <3> QED
      BY <3>2 DEF w
  <2>3. saving[h].version \in Nat /\ sharedRow.version \in Nat
    BY <2>1, HomeKnown DEF SavingInv, WriteInv, Snapshots, CredentialRows
  <2>4. saving[h].version < sharedRow.version
    BY <2>2 DEF FencedInv
  <2>5. ~SaveAccepted(sharedRow, saving[h])
    BY <2>3, <2>4 DEF SaveAccepted
  <2> QED
    BY <2>5 DEF CommitSave
<1> QED
  BY <1>1, SpecCooldownInv, PTL DEF CooldownSpec, SwitchFencesSaves
===============================================================================
