------------------------------ MODULE StoreProofs ------------------------------
(***************************************************************************)
(* Machine-checked proofs about what Home keeps in the database and how it *)
(* charges: usage accounting (Billing), for any number of requests and     *)
(* concurrent transactions and any window length; the shared key-value     *)
(* store (KeyValueStore), for any keys and concurrent commands; the import *)
(* and the choice of price rules (PriceRules); in-flight snapshots         *)
(* (InFlight), for any lifetimes, parts and deliveries; the views readers  *)
(* page through (SnapshotCursor), for any views and readers; and the split *)
(* of a charge into priced buckets (ChargeSplit), for any counts a         *)
(* provider reports.                                                       *)
(***************************************************************************)
EXTENDS Billing, KeyValueStore, PriceRules, InFlight, SnapshotCursor, ChargeSplit,
        SumLemmas, FiniteSetTheorems, SequenceTheorems, TLAPS

UserRecords ==
    [credits : Int, unlimited : BOOLEAN, deleted : BOOLEAN, multiplier : {1, 2},
     limit : {NoLimit, 1}, mode : WindowModes, start : Nat, epoch : Nat]
TxRecords ==
    {NoTx} \cup [kind : {"usage"}, exec : Executions, owned : BOOLEAN, multiplier : {1, 2}]
           \cup [kind : {"balance"}, seen : Int, delta : {-1, 1}]

BillingTypeInv ==
    /\ billNow \in Nat /\ billUser \in UserRecords /\ billOwned \in BOOLEAN /\ booked \in Int
    /\ billRequest \in [Executions -> [phase : {"idle", "running", "reported"}, at : Nat, billable : BOOLEAN]]
    /\ billTx \in [Deliveries -> TxRecords]
    /\ usageRows \in Seq(Executions)

\* While a transaction holds the lock of a payload, no other works on it and it is not stored.
LockedUsageIsNew ==
    \A d \in Deliveries : billTx[d].kind = "usage" =>
        /\ ~StoredUsage(billTx[d].exec)
        /\ \A x \in Deliveries : billTx[x].kind = "usage" /\ billTx[x].exec = billTx[d].exec => x = d

BillingInv == BillingTypeInv /\ LockedUsageIsNew /\ UsageStoredOnce /\ CreditsMatchLedger

LEMMA BillingInitInv == BillingInit => BillingInv
<1> SUFFICES ASSUME BillingInit PROVE BillingInv
  OBVIOUS
<1> USE DEF BillingInit
<1>1. billUser \in UserRecords /\ billUser.credits = 2
  <2>1. billUser \in [credits : {InitialCredits}, unlimited : {FALSE}, deleted : {FALSE}, multiplier : {1},
                      limit : {NoLimit, 1}, mode : WindowModes, start : {NoTime}, epoch : {NoTime}]
    OBVIOUS
  <2>2. InitialCredits = 2 /\ InitialCredits \in Int /\ NoTime \in Nat
    BY DEF InitialCredits, NoTime
  <2> QED
    BY <2>1, <2>2 DEF UserRecords
<1>2. billRequest \in [Executions -> [phase : {"idle", "running", "reported"}, at : Nat, billable : BOOLEAN]]
  BY DEF NoTime
<1>3. billTx \in [Deliveries -> TxRecords] /\ \A d \in Deliveries : billTx[d].kind # "usage"
  BY DEF TxRecords, NoTx
<1>4. BillingTypeInv
  BY <1>1, <1>2, <1>3 DEF BillingTypeInv
<1> QED
  BY <1>1, <1>3, <1>4 DEF BillingInv, LockedUsageIsNew, UsageStoredOnce, CreditsMatchLedger, InitialCredits

-------------------------------------------------------------------------------
(* What a charge does to the user: the window it may open and the debit. *)

LEMMA OpenedWindow ==
    ASSUME NEW u \in UserRecords, NEW t \in Nat
    PROVE  /\ OpenFirstUseWindow(u, t) \in UserRecords
           /\ OpenFirstUseWindow(u, t).credits = u.credits
           /\ OpenFirstUseWindow(u, t).unlimited = u.unlimited
           /\ OpenFirstUseWindow(u, t).start # u.start => u.start = NoTime \/ t >= u.start + WindowLength
           /\ OpenFirstUseWindow(u, t).start \in {u.start, t}
BY BillingAssumption DEF OpenFirstUseWindow, NeedOpen, FirstUseActive, UserRecords, NoTime

LEMMA DebitedUser ==
    ASSUME BillingTypeInv, NEW u \in UserRecords, NEW delta \in Int, NEW seen \in Int,
           u.credits = billUser.credits, u.unlimited = billUser.unlimited
    PROVE  /\ Debited(u, seen, delta) \in UserRecords
           /\ Debited(u, seen, delta).start = u.start
           /\ Difference(billUser, delta) \in Int
           /\ Debited(u, seen, delta).credits = billUser.credits + Difference(billUser, delta)
<1>1. billUser.unlimited \in BOOLEAN /\ billUser.credits \in Int
  BY DEF BillingTypeInv, UserRecords
<1>2. CASE u.unlimited
  BY <1>1, <1>2 DEF Debited, Difference
<1>3. CASE ~u.unlimited
  <2>1. Debited(u, seen, delta) = [u EXCEPT !.credits = billUser.credits + delta]
    BY <1>3 DEF Debited, CreditsAfter
  <2>2. billUser.credits + delta \in Int
    BY <1>1
  <2> QED
    BY <1>1, <1>3, <2>1, <2>2 DEF Difference, UserRecords
<1> QED
  BY <1>2, <1>3

LEMMA ChargeEffect ==
    ASSUME BillingTypeInv, CreditsMatchLedger, NEW d \in Deliveries, billTx[d].kind = "usage", CreateBillingCharge(d)
    PROVE  /\ billUser' \in UserRecords /\ booked' \in Int /\ CreditsMatchLedger'
           /\ \/ billUser'.start = billUser.start
              \/ billUser.start = NoTime
              \/ billUser'.start >= billUser.start + WindowLength
<1> DEFINE e == billTx[d].exec
           t == billRequest[e].at
           amount == billTx[d].multiplier
           opened == OpenFirstUseWindow(billUser, t)
<1>1. billTx[d] \in [kind : {"usage"}, exec : Executions, owned : BOOLEAN, multiplier : {1, 2}]
  BY DEF BillingTypeInv, TxRecords, NoTx
<1>2. e \in Executions /\ t \in Nat /\ amount \in Int /\ 0 - amount \in Int
  BY <1>1 DEF BillingTypeInv
<1>3. CASE ~billRequest[e].billable \/ charges[e] # <<>> \/ ~billTx[d].owned
  <2>1. UNCHANGED <<billUser, booked>>
    BY <1>3 DEF CreateBillingCharge
  <2> QED
    BY <2>1 DEF BillingTypeInv, CreditsMatchLedger
<1>4. CASE ~(~billRequest[e].billable \/ charges[e] # <<>> \/ ~billTx[d].owned)
  <2>1. /\ billUser' = Debited(opened, billUser.credits, 0 - amount)
        /\ booked' = booked + Difference(billUser, 0 - amount)
    BY <1>4 DEF CreateBillingCharge
  <2>2. billUser \in UserRecords /\ billUser.credits \in Int /\ billUser.start \in Nat
    BY DEF BillingTypeInv, UserRecords
  <2>3. /\ opened \in UserRecords /\ opened.credits = billUser.credits /\ opened.unlimited = billUser.unlimited
        /\ opened.start # billUser.start => billUser.start = NoTime \/ t >= billUser.start + WindowLength
        /\ opened.start \in {billUser.start, t}
    BY <1>2, <2>2, OpenedWindow
  <2> HIDE DEF e, t, amount, opened
  <2>4. /\ Debited(opened, billUser.credits, 0 - amount) \in UserRecords
        /\ Debited(opened, billUser.credits, 0 - amount).start = opened.start
        /\ Difference(billUser, 0 - amount) \in Int
        /\ Debited(opened, billUser.credits, 0 - amount).credits = billUser.credits + Difference(billUser, 0 - amount)
    BY <1>2, <2>2, <2>3, DebitedUser
  <2> QED
    BY <2>1, <2>2, <2>3, <2>4 DEF CreditsMatchLedger, BillingTypeInv, InitialCredits
<1> QED
  BY <1>3, <1>4

-------------------------------------------------------------------------------
(* The inductive step. *)

LEMMA BillingUsageStep ==
    ASSUME BillingInv, NEW d \in Deliveries,
           (\E e \in Executions : DeliverUsage(d, e)) \/ CommitUsage(d) \/ RollBack(d)
    PROVE  BillingInv'
<1> USE DEF BillingInv
<1>1. CASE \E e \in Executions : DeliverUsage(d, e)
  <2>0. PICK e \in Executions : DeliverUsage(d, e)
    BY <1>1
  <2>1. BillingTypeInv'
    <3>1. [kind |-> "usage", exec |-> e, owned |-> billOwned,
           multiplier |-> IF billUser.deleted THEN 1 ELSE billUser.multiplier] \in TxRecords
      BY DEF BillingTypeInv, TxRecords, UserRecords
    <3> QED
      BY <2>0, <3>1 DEF DeliverUsage, BillingTypeInv
  <2>2. LockedUsageIsNew'
    BY <2>0 DEF DeliverUsage, LockedUsageIsNew, UsageLockFree, StoredUsage, BillingTypeInv
  <2> QED
    BY <2>0, <2>1, <2>2 DEF DeliverUsage, UsageStoredOnce, CreditsMatchLedger
<1>2. CASE CommitUsage(d)
  <2>1. /\ billTx[d].kind = "usage" /\ CreateBillingCharge(d)
        /\ usageRows' = Append(usageRows, billTx[d].exec)
        /\ billTx' = [billTx EXCEPT ![d] = NoTx]
        /\ UNCHANGED <<billNow, billOwned, billRequest>>
    BY <1>2 DEF CommitUsage
  <2>2. billTx[d].exec \in Executions
    BY <2>1 DEF BillingTypeInv, TxRecords, NoTx
  <2>3. billUser' \in UserRecords /\ booked' \in Int /\ CreditsMatchLedger'
    BY <2>1, ChargeEffect
  <2>4. BillingTypeInv'
    BY <2>1, <2>2, <2>3 DEF BillingTypeInv, TxRecords
  <2>5. UsageStoredOnce'
    BY <2>1, <2>2 DEF UsageStoredOnce, LockedUsageIsNew, StoredUsage, BillingTypeInv
  <2>6. LockedUsageIsNew'
    BY <2>1, <2>2 DEF LockedUsageIsNew, StoredUsage, BillingTypeInv, NoTx
  <2> QED
    BY <2>3, <2>4, <2>5, <2>6
<1>3. CASE RollBack(d)
  <2>1. BillingTypeInv'
    BY <1>3 DEF RollBack, BillingTypeInv, TxRecords
  <2>2. LockedUsageIsNew'
    BY <1>3 DEF RollBack, LockedUsageIsNew, StoredUsage, BillingTypeInv, NoTx
  <2> QED
    BY <1>3, <2>1, <2>2 DEF RollBack, UsageStoredOnce, CreditsMatchLedger
<1> QED
  BY <1>1, <1>2, <1>3

LEMMA BillingBalanceStep ==
    ASSUME BillingInv, NEW d \in Deliveries, BeginBalance(d) \/ CommitBalance(d)
    PROVE  BillingInv'
<1> USE DEF BillingInv
<1>1. CASE BeginBalance(d)
  <2>1. BillingTypeInv'
    BY <1>1 DEF BeginBalance, AdminStep, BillingTypeInv, TxRecords, UserRecords
  <2>2. LockedUsageIsNew'
    BY <1>1 DEF BeginBalance, AdminStep, LockedUsageIsNew, StoredUsage, BillingTypeInv
  <2> QED
    BY <1>1, <2>1, <2>2 DEF BeginBalance, AdminStep, UsageStoredOnce, CreditsMatchLedger
<1>2. CASE CommitBalance(d)
  <2>1. billTx[d].seen \in Int /\ billTx[d].delta \in Int
    BY <1>2 DEF CommitBalance, BillingTypeInv, TxRecords, NoTx
  <2>2. /\ billUser' \in UserRecords /\ Difference(billUser, billTx[d].delta) \in Int
        /\ billUser'.credits = billUser.credits + Difference(billUser, billTx[d].delta)
    BY <1>2, <2>1, DebitedUser DEF CommitBalance, BillingTypeInv
  <2>3. BillingTypeInv'
    BY <1>2, <2>2 DEF CommitBalance, BillingTypeInv, TxRecords
  <2>4. CreditsMatchLedger'
    BY <1>2, <2>2 DEF CommitBalance, CreditsMatchLedger, BillingTypeInv, InitialCredits, UserRecords
  <2>5. LockedUsageIsNew'
    BY <1>2 DEF CommitBalance, LockedUsageIsNew, StoredUsage, BillingTypeInv, NoTx
  <2> QED
    BY <1>2, <2>3, <2>4, <2>5 DEF CommitBalance, UsageStoredOnce
<1> QED
  BY <1>1, <1>2

LEMMA RecreditedUser ==
    ASSUME NEW u \in UserRecords, NEW c \in Int
    PROVE  [u EXCEPT !.credits = c] \in UserRecords /\ [u EXCEPT !.credits = c].credits = c
BY DEF UserRecords

LEMMA EditedUser ==
    ASSUME BillingInv, UpdateUser
    PROVE  billUser' \in UserRecords /\ booked' \in Int /\ CreditsMatchLedger'
<1> USE DEF BillingInv, BillingTypeInv, CreditsMatchLedger, InitialCredits
<1>0. billUser \in UserRecords /\ billUser.credits \in Int
  BY DEF UserRecords
<1>1. CASE \E b \in BOOLEAN : billUser' = [billUser EXCEPT !.unlimited = b] /\ UNCHANGED booked
  BY <1>0, <1>1 DEF UserRecords
<1>2. CASE \E m \in {1, 2} : billUser' = [billUser EXCEPT !.multiplier = m] /\ UNCHANGED booked
  BY <1>0, <1>2 DEF UserRecords
<1>3. CASE \E m \in WindowModes, l \in {NoLimit, 1} :
             billUser' = [billUser EXCEPT !.mode = m, !.limit = l] /\ UNCHANGED booked
  BY <1>0, <1>3 DEF UserRecords
<1>4. CASE billUser' = [billUser EXCEPT !.credits = InitialCredits]
           /\ booked' = booked + (InitialCredits - billUser.credits)
  <2>1. booked \in Int /\ billUser.credits = 2 + booked
    OBVIOUS
  <2>2. billUser' = [billUser EXCEPT !.credits = 2] /\ booked' = booked + (2 - billUser.credits)
    BY <1>4
  <2> HIDE DEF BillingInv, BillingTypeInv, CreditsMatchLedger
  <2>3. billUser' \in UserRecords /\ billUser'.credits = 2
    BY <1>0, <2>2, RecreditedUser
  <2>4. booked' = 0
    BY <2>1, <2>2
  <2> QED
    BY <2>3, <2>4 DEF CreditsMatchLedger
<1> QED
  BY <1>1, <1>2, <1>3, <1>4 DEF UpdateUser

LEMMA BillingAdminStep ==
    ASSUME BillingInv, UpdateUser \/ DeleteUser \/ ResetUserPeriodLimits \/ AssignKey \/ BillTick
    PROVE  BillingInv'
<1> USE DEF BillingInv
<1>1. UNCHANGED <<billRequest, billTx, usageRows>>
  BY DEF UpdateUser, DeleteUser, ResetUserPeriodLimits, AssignKey, BillTick
<1>2. LockedUsageIsNew' /\ UsageStoredOnce'
  BY <1>1 DEF LockedUsageIsNew, UsageStoredOnce, StoredUsage
<1>3. billNow' \in Nat /\ billOwned' \in BOOLEAN
  <2>1. CASE UpdateUser \/ DeleteUser \/ ResetUserPeriodLimits
    BY <2>1 DEF UpdateUser, DeleteUser, ResetUserPeriodLimits, BillingTypeInv
  <2>2. CASE AssignKey
    BY <2>2 DEF AssignKey, BillingTypeInv
  <2>3. CASE BillTick
    BY <2>3 DEF BillTick, BillingTypeInv
  <2> QED
    BY <2>1, <2>2, <2>3
<1>4. billUser' \in UserRecords /\ booked' \in Int /\ CreditsMatchLedger'
  <2>0. billUser \in UserRecords /\ billNow \in Nat /\ booked \in Int
    BY DEF BillingTypeInv
  <2>1. CASE UpdateUser
    BY <2>1, EditedUser
  <2>2. CASE DeleteUser
    BY <2>0, <2>2 DEF DeleteUser, UserRecords, CreditsMatchLedger
  <2>3. CASE ResetUserPeriodLimits
    <3>1. PICK reset \in {"counter", "window_only"} :
             billUser' = [billUser EXCEPT !.start = NoTime,
                             !.epoch = IF reset = "counter" \/ billUser.mode # "first_use" THEN billNow ELSE @]
      BY <2>3 DEF ResetUserPeriodLimits
    <3>2. booked' = booked
      BY <2>3 DEF ResetUserPeriodLimits
    <3> QED
      BY <2>0, <3>1, <3>2 DEF UserRecords, CreditsMatchLedger, NoTime
  <2>4. CASE AssignKey \/ BillTick
    BY <2>0, <2>4 DEF AssignKey, BillTick, CreditsMatchLedger
  <2> QED
    BY <2>1, <2>2, <2>3, <2>4
<1> QED
  BY <1>1, <1>2, <1>3, <1>4 DEF BillingTypeInv

LEMMA BillingRequestStep ==
    ASSUME BillingInv, NEW e \in Executions, DispatchRequest(e) \/ FinishRequest(e)
    PROVE  BillingInv'
<1> USE DEF BillingInv
<1>1. UNCHANGED <<billNow, billUser, billOwned, billTx, usageRows, booked>>
  BY DEF DispatchRequest, FinishRequest
<1>2. billRequest' \in [Executions -> [phase : {"idle", "running", "reported"}, at : Nat, billable : BOOLEAN]]
  <2> DEFINE Requests == [phase : {"idle", "running", "reported"}, at : Nat, billable : BOOLEAN]
  <2>0. billNow \in Nat /\ billRequest[e] \in Requests
    BY DEF BillingTypeInv
  <2>1. CASE DispatchRequest(e)
    <3>1. billRequest' = [billRequest EXCEPT ![e] = [billRequest[e] EXCEPT !.phase = "running", !.at = billNow]]
      BY <2>1 DEF DispatchRequest, BillingTypeInv
    <3> QED
      BY <2>0, <3>1 DEF BillingTypeInv
  <2>2. CASE FinishRequest(e)
    <3>1. PICK b \in BOOLEAN :
             billRequest' = [billRequest EXCEPT ![e] = [billRequest[e] EXCEPT !.phase = "reported", !.billable = b]]
      BY <2>2 DEF FinishRequest, BillingTypeInv
    <3> QED
      BY <2>0, <3>1 DEF BillingTypeInv
  <2> QED
    BY <2>1, <2>2
<1> QED
  BY <1>1, <1>2 DEF BillingTypeInv, LockedUsageIsNew, UsageStoredOnce, StoredUsage, CreditsMatchLedger

LEMMA BillingNextInv == BillingInv /\ [BillingNext]_billVars => BillingInv'
<1> SUFFICES ASSUME BillingInv, [BillingNext]_billVars PROVE BillingInv'
  OBVIOUS
<1>1. CASE UNCHANGED billVars
  BY <1>1 DEF billVars, BillingInv, BillingTypeInv, LockedUsageIsNew, UsageStoredOnce, StoredUsage, CreditsMatchLedger
<1>2. CASE \E e \in Executions : DispatchRequest(e) \/ FinishRequest(e)
  BY <1>2, BillingRequestStep
<1>3. CASE \E d \in Deliveries, e \in Executions : DeliverUsage(d, e)
  BY <1>3, BillingUsageStep
<1>4. CASE \E d \in Deliveries : CommitUsage(d) \/ RollBack(d)
  BY <1>4, BillingUsageStep
<1>5. CASE \E d \in Deliveries : BeginBalance(d) \/ CommitBalance(d)
  BY <1>5, BillingBalanceStep
<1>6. CASE UpdateUser \/ DeleteUser \/ ResetUserPeriodLimits \/ AssignKey \/ BillTick
  BY <1>6, BillingAdminStep
<1> QED
  BY <1>1, <1>2, <1>3, <1>4, <1>5, <1>6 DEF BillingNext

-------------------------------------------------------------------------------
(* The theorems. *)

LEMMA BillingSpecInv == BillingSpec => []BillingInv
<1> QED
  BY BillingInitInv, BillingNextInv, PTL DEF BillingSpec

(***************************************************************************)
(* A usage payload is stored once, however often, wherever and in whatever *)
(* overlap it is delivered: the lock of its key covers the search for a    *)
(* stored row and the insertion (AppendUsageWithRuntimeOutcome).  And the  *)
(* balance is the initial credits and every difference that was booked,    *)
(* whichever charges, recharges and edits of the user overlap              *)
(* (billingApplyUserCreditDeltaTx, UpdateUser).                            *)
(***************************************************************************)
THEOREM AccountsStayExact == BillingSpec => []AccountsAreExact
<1>1. BillingInv => AccountsAreExact
  BY DEF BillingInv, AccountsAreExact
<1> QED
  BY <1>1, BillingSpecInv, PTL

(***************************************************************************)
(* A first-use window that is open is replaced by no window that starts    *)
(* before it ends (openUserFirstUseWindowsOnChargeTx).                     *)
(***************************************************************************)
THEOREM WindowsRunTheirTime == BillingSpec => WindowNotRestarted
<1> DEFINE Step == (billUser.start # NoTime /\ billUser'.start \notin {NoTime, billUser.start})
                     => billUser'.start >= billUser.start + WindowLength
<1>1. BillingInv /\ [BillingNext]_billVars => [Step]_billVars
  <2> SUFFICES ASSUME BillingInv, BillingNext PROVE Step
    OBVIOUS
  <2> USE DEF BillingInv
  <2>1. CASE \E d \in Deliveries : CommitUsage(d)
    BY <2>1, ChargeEffect DEF CommitUsage
  <2>2. CASE \E d \in Deliveries : CommitBalance(d)
    BY <2>2 DEF CommitBalance, Debited, BillingTypeInv, UserRecords
  <2>3. CASE UpdateUser \/ DeleteUser \/ ResetUserPeriodLimits
    BY <2>3 DEF UpdateUser, DeleteUser, ResetUserPeriodLimits, BillingTypeInv, UserRecords
  <2>4. CASE UNCHANGED billUser
    BY <2>4
  <2> QED
    BY <2>1, <2>2, <2>3, <2>4 DEF BillingNext, DispatchRequest, FinishRequest, DeliverUsage, RollBack,
        BeginBalance, AssignKey, BillTick
<1> QED
  BY <1>1, BillingSpecInv, PTL DEF BillingSpec, WindowNotRestarted

-------------------------------------------------------------------------------
(***************************************************************************)
(* Keys, rows and commands of the key-value store.                         *)
(***************************************************************************)
KVRows == {NoRow} \cup {<<r>> : r \in [value : Nat, expires : Nat]}
Effects == {<<>>} \cup {<<r>> : r \in KVRows}
Writes == [key : Keys, absent : BOOLEAN, effect : Effects]
RunRecords ==
    [op : {"run"}, cmd : {<<>>} \cup {<<m>> : m \in Commands}, todo : Seq(Keys), writes : SUBSET Writes]
DropRecords == [op : {"drop"}, todo : {<<k>> : k \in Keys}, writes : {{}}, seen : Nat]

KVTypes ==
    /\ kvRow \in [Keys -> KVRows] /\ kvSpec \in [Keys -> KVRows]
    /\ kvNow \in Nat
    /\ kvLock \in [Keys -> Clients \cup {0}]
    /\ kvCommand \in [Clients -> {NoCommand} \cup RunRecords \cup DropRecords]

\* A row is what was committed, unless it expired and was deleted.
RowsFollowCommits ==
    \A k \in Keys : kvRow[k] = kvSpec[k] \/ (kvRow[k] = NoRow /\ ExpiredRow(kvSpec[k], kvNow))

\* A command has a body while it has keys to visit, and visits them in ascending order;
\* a deletion looks at the expiry with the time it read before.
CommandInv(c) ==
    LET cmd == kvCommand[c]
    IN /\ cmd.op = "run" => /\ cmd.todo # <<>> => cmd.cmd # <<>>
                            /\ \A i, j \in DOMAIN cmd.todo : i < j => cmd.todo[i] < cmd.todo[j]
       /\ cmd.op = "drop" => cmd.seen <= kvNow

\* A row lock is held by a running command that only has later keys to visit.
LockInv(k) ==
    kvLock[k] # 0 => LET cmd == kvCommand[kvLock[k]]
                     IN cmd.op = "run" /\ \A i \in DOMAIN cmd.todo : k < cmd.todo[i]

KVInv ==
    /\ KVTypes /\ RowsFollowCommits
    /\ \A c \in Clients : CommandInv(c)
    /\ \A k \in Keys : LockInv(k)

(***************************************************************************)
(* The operators: rows, and what a command makes of one.                   *)
(***************************************************************************)
LEMMA RowShape ==
    ASSUME NEW r \in KVRows, NEW now \in Nat
    PROVE  /\ ActiveRow(r, now) \in {NoRow, r}
           /\ r # NoRow => r[1].value \in Nat /\ r[1].expires \in Nat
           /\ ~ExpiredRow(NoRow, now)
           /\ ActiveRow(NoRow, now) = NoRow
<1>1. r # NoRow => r[1].value \in Nat /\ r[1].expires \in Nat
  BY DEF KVRows, NoRow
<1>2. ~ExpiredRow(NoRow, now)
  BY DEF ExpiredRow
<1> QED
  BY <1>1, <1>2 DEF ActiveRow

LEMMA RecordIsRow ==
    ASSUME NEW v \in Nat, NEW e \in Nat
    PROVE  <<KVRecord(v, e)>> \in Effects
<1>1. [value |-> v, expires |-> e] \in [value : Nat, expires : Nat]
  OBVIOUS
<1>2. KVRecord(v, e) \in KVRows
  BY <1>1 DEF KVRows, KVRecord
<1> QED
  BY <1>2 DEF Effects

LEMMA NothingIsEffect == <<>> \in Effects /\ <<NoRow>> \in Effects
  BY DEF Effects, KVRows

LEMMA CommandShape ==
    ASSUME NEW cmd \in Commands
    PROVE  /\ cmd.op \in {"set", "cas", "del", "incr", "expire", "mset"}
           /\ cmd.op \in {"set", "cas", "mset"} => cmd.value \in Nat
           /\ cmd.op \in {"set", "cas", "expire"} => cmd.ttl \in Nat
<1>1. KVValues \subseteq Nat /\ TTLs \subseteq Nat
  BY KVAssumption DEF KVValues, TTLs
<1> QED
  BY <1>1 DEF Commands

LEMMA EffectIsTyped ==
    ASSUME KVTypes, NEW cmd \in Commands, NEW r \in KVRows
    PROVE  Effect(cmd, r) \in Effects
<1> DEFINE live == ActiveRow(r, kvNow)
<1>1. kvNow \in Nat
  BY DEF KVTypes
<1>2. live # NoRow => live[1].value \in Nat /\ live[1].expires \in Nat
  BY <1>1, RowShape
<1>3. MaxValue + 1 \in Nat \ {0}
  BY KVAssumption
<1>4. live # NoRow => (live[1].value + 1) % (MaxValue + 1) \in Nat
  BY <1>2, <1>3
<1> HIDE DEF live
<1>5. CASE cmd.op = "set"
  <2>1. ExpiresAt(cmd.ttl) \in Nat /\ cmd.value \in Nat
    BY <1>1, <1>5, CommandShape DEF ExpiresAt
  <2>2. <<KVRecord(cmd.value, ExpiresAt(cmd.ttl))>> \in Effects
    BY <2>1, RecordIsRow
  <2> QED
    BY <1>5, <2>2, NothingIsEffect DEF Effect
<1>6. CASE cmd.op = "cas"
  <2>1. ExpiresAt(cmd.ttl) \in Nat /\ cmd.value \in Nat
    BY <1>1, <1>6, CommandShape DEF ExpiresAt
  <2>2. <<KVRecord(cmd.value, ExpiresAt(cmd.ttl))>> \in Effects
    BY <2>1, RecordIsRow
  <2> QED
    BY <1>6, <2>2, NothingIsEffect DEF Effect
<1>7. CASE cmd.op = "del"
  BY <1>7, NothingIsEffect DEF Effect
<1>8. CASE cmd.op = "expire"
  <2>1. kvNow + cmd.ttl \in Nat
    BY <1>1, <1>8, CommandShape
  <2>2. live # NoRow => <<KVRecord(live[1].value, kvNow + cmd.ttl)>> \in Effects
    BY <1>2, <2>1, RecordIsRow
  <2> QED
    BY <1>8, <2>2, NothingIsEffect DEF Effect, live
<1>9. CASE cmd.op = "incr"
  <2>1. <<KVRecord(1, 0)>> \in Effects
    BY RecordIsRow
  <2>2. live # NoRow =>
          <<KVRecord((live[1].value + 1) % (MaxValue + 1), live[1].expires)>> \in Effects
    BY <1>2, <1>4, RecordIsRow
  <2> QED
    BY <1>9, <2>1, <2>2 DEF Effect, live
<1>10. CASE cmd.op = "mset"
  <2>1. <<KVRecord(cmd.value, 0)>> \in Effects
    BY <1>10, CommandShape, RecordIsRow
  <2> QED
    BY <1>10, <2>1 DEF Effect
<1> QED
  BY <1>5, <1>6, <1>7, <1>8, <1>9, <1>10, CommandShape

LEMMA OrderIsSeq ==
    ASSUME NEW keys \in SUBSET Keys, keys # {}, NEW s \in KeyOrders(keys)
    PROVE  /\ s \in Seq(Keys) /\ s # <<>>
           /\ \A i, j \in DOMAIN s : i < j => s[i] < s[j]
<1>1. IsFiniteSet(keys)
  BY KVAssumption, FS_Subset
<1>2. Cardinality(keys) \in Nat /\ Cardinality(keys) # 0
  BY <1>1, FS_CardinalityType, FS_EmptySet
<1>3. s \in [1 .. Cardinality(keys) -> Keys]
  BY DEF KeyOrders
<1>4. s \in Seq(Keys)
  BY <1>2, <1>3
<1>5. 1 \in DOMAIN s
  BY <1>2, <1>3
<1>6. s # <<>>
  BY <1>4, <1>5
<1> QED
  BY <1>4, <1>6 DEF KeyOrders

(***************************************************************************)
(* The steps of a command.                                                 *)
(***************************************************************************)
LEMMA CommandRecord ==
    ASSUME KVTypes, NEW c \in Clients
    PROVE  /\ kvCommand[c].op = "run" => kvCommand[c] \in RunRecords
           /\ kvCommand[c].op = "drop" => kvCommand[c] \in DropRecords
           /\ kvCommand[c] = NoCommand => kvCommand[c].op = "none"
  BY DEF KVTypes, RunRecords, DropRecords, NoCommand

LEMMA RestOfOrder ==
    ASSUME NEW order \in Seq(Keys), order # <<>>
    PROVE  /\ Head(order) \in Keys /\ Head(order) = order[1] /\ 1 \in DOMAIN order
           /\ Tail(order) \in Seq(Keys)
           /\ \A i \in DOMAIN Tail(order) : i \in Nat /\ i > 0 /\ i + 1 \in DOMAIN order
                                             /\ Tail(order)[i] = order[i + 1]
  OBVIOUS

LEMMA VisitInv ==
    ASSUME KVInv, NEW c \in Clients, NEW cmd \in Commands, NEW order \in Seq(Keys), order # <<>>,
           \A i, j \in DOMAIN order : i < j => order[i] < order[j],
           NEW writes \in SUBSET Writes,
           \A k \in Keys : kvLock[k] = c => \A i \in DOMAIN order : k < order[i],
           Visit(c, cmd, order, writes), UNCHANGED <<kvRow, kvNow, kvSpec>>
    PROVE  KVInv'
<1> DEFINE k == Head(order)
           rest == Tail(order)
           write == [key |-> k, absent |-> kvRow[k] = NoRow, effect |-> Effect(cmd, kvRow[k])]
           body == IF rest = <<>> THEN <<>> ELSE <<cmd>>
           new == [op |-> "run", cmd |-> body, todo |-> rest, writes |-> writes \cup {write}]
<1>1. /\ k \in Keys /\ k = order[1] /\ 1 \in DOMAIN order /\ rest \in Seq(Keys)
      /\ \A i \in DOMAIN rest : i \in Nat /\ i > 0 /\ i + 1 \in DOMAIN order /\ rest[i] = order[i + 1]
  BY RestOfOrder
<1>2. KVTypes
  BY DEF KVInv
<1>3. write \in Writes
  <2>1. kvRow[k] \in KVRows
    BY <1>1, <1>2 DEF KVTypes
  <2>2. Effect(cmd, kvRow[k]) \in Effects
    BY <1>2, <2>1, EffectIsTyped
  <2> QED
    BY <1>1, <2>2 DEF Writes
<1>4. /\ kvCommand' = [kvCommand EXCEPT ![c] = new]
      /\ kvLock' = IF kvRow[k] # NoRow THEN [kvLock EXCEPT ![k] = c] ELSE kvLock
  BY DEF Visit
<1> HIDE DEF k, rest, write
<1>5. /\ new \in RunRecords /\ new.op = "run" /\ new.todo = rest
      /\ rest # <<>> => new.cmd # <<>>
  <2>1. body \in {<<>>} \cup {<<m>> : m \in Commands} /\ (rest # <<>> => body # <<>>)
    OBVIOUS
  <2>2. writes \cup {write} \in SUBSET Writes
    BY <1>3
  <2> HIDE DEF body
  <2> QED
    BY <1>1, <2>1, <2>2 DEF RunRecords
<1> HIDE DEF new
<1>6. /\ kvCommand'[c] = new
      /\ \A d \in Clients : d # c => kvCommand'[d] = kvCommand[d]
      /\ kvCommand' \in [Clients -> {NoCommand} \cup RunRecords \cup DropRecords]
  BY <1>2, <1>4, <1>5 DEF KVTypes
<1>7. /\ \A q \in Keys : kvLock'[q] = kvLock[q] \/ (q = k /\ kvLock'[q] = c)
      /\ kvLock' \in [Keys -> Clients \cup {0}]
  BY <1>1, <1>2, <1>4 DEF KVTypes
<1>8. KVTypes'
  BY <1>2, <1>6, <1>7 DEF KVTypes
<1>9. RowsFollowCommits'
  BY DEF KVInv, RowsFollowCommits
<1>10. ASSUME NEW d \in Clients PROVE CommandInv(d)'
  <2>1. CASE d = c
    <3>1. \A i, j \in DOMAIN rest : i < j => rest[i] < rest[j]
      BY <1>1
    <3> QED
      BY <1>5, <1>6, <2>1, <3>1 DEF CommandInv
  <2>2. CASE d # c
    BY <1>6, <2>2 DEF KVInv, CommandInv
  <2> QED
    BY <2>1, <2>2
<1>11. ASSUME NEW q \in Keys PROVE LockInv(q)'
  <2>1. \A i \in DOMAIN rest : k < rest[i]
    BY <1>1
  <2>2. kvLock[q] = c => \A i \in DOMAIN rest : q < rest[i]
    BY <1>1
  <2>3. CASE kvLock'[q] = c
    BY <1>5, <1>6, <1>7, <2>1, <2>2, <2>3 DEF LockInv
  <2>4. CASE kvLock'[q] # c /\ kvLock'[q] # 0
    <3>1. kvLock'[q] = kvLock[q] /\ kvLock[q] \in Clients
      BY <1>2, <1>7, <2>4 DEF KVTypes
    <3> QED
      BY <1>6, <2>4, <3>1 DEF KVInv, LockInv
  <2> QED
    BY <2>3, <2>4 DEF LockInv
<1> QED
  BY <1>8, <1>9, <1>10, <1>11 DEF KVInv

LEMMA StartInv ==
    ASSUME KVInv, NEW c \in Clients, NEW cmd \in Commands, NEW keys \in SUBSET Keys,
           StartCommand(c, cmd, keys)
    PROVE  KVInv'
<1>1. PICK order \in KeyOrders(keys) : Visit(c, cmd, order, {})
  BY DEF StartCommand
<1>2. /\ order \in Seq(Keys) /\ order # <<>>
      /\ \A i, j \in DOMAIN order : i < j => order[i] < order[j]
  BY OrderIsSeq DEF StartCommand
<1>3. c # 0
  BY KVAssumption
<1>4. \A k \in Keys : kvLock[k] # c
  BY <1>3, CommandRecord DEF StartCommand, KVInv, LockInv
<1> QED
  BY <1>1, <1>2, <1>4, VisitInv DEF StartCommand

LEMMA VisitKeyInv ==
    ASSUME KVInv, NEW c \in Clients, VisitKey(c)
    PROVE  KVInv'
<1> DEFINE cmd == kvCommand[c]
<1>1. cmd \in RunRecords /\ cmd.op = "run" /\ cmd.todo # <<>>
  BY CommandRecord DEF VisitKey, KVInv
<1>2. cmd.cmd[1] \in Commands
  <2>1. cmd.cmd # <<>>
    BY <1>1 DEF KVInv, CommandInv
  <2> QED
    BY <1>1, <2>1 DEF RunRecords
<1>3. cmd.todo \in Seq(Keys) /\ cmd.writes \in SUBSET Writes
  BY <1>1 DEF RunRecords
<1>4. c # 0
  BY KVAssumption
<1>5. \A k \in Keys : kvLock[k] = c => \A i \in DOMAIN cmd.todo : k < cmd.todo[i]
  BY <1>4 DEF KVInv, LockInv
<1>6. \A i, j \in DOMAIN cmd.todo : i < j => cmd.todo[i] < cmd.todo[j]
  BY <1>1 DEF KVInv, CommandInv
<1>7. Visit(c, cmd.cmd[1], cmd.todo, cmd.writes) /\ UNCHANGED <<kvRow, kvNow, kvSpec>>
  BY DEF VisitKey
<1> QED
  BY <1>1, <1>2, <1>3, <1>5, <1>6, <1>7, VisitInv

\* A command that ends drops its locks and nothing else of other commands changes.
LEMMA EndedCommand ==
    ASSUME KVInv, NEW c \in Clients, kvCommand' = [kvCommand EXCEPT ![c] = NoCommand],
           UNCHANGED kvNow,
           \/ Unlock(c)
           \/ kvCommand[c].op # "run" /\ UNCHANGED kvLock
    PROVE  /\ kvLock' \in [Keys -> Clients \cup {0}]
           /\ kvCommand' \in [Clients -> {NoCommand} \cup RunRecords \cup DropRecords]
           /\ \A d \in Clients : CommandInv(d)'
           /\ \A k \in Keys : LockInv(k)'
<1>1. KVTypes
  BY DEF KVInv
<1>2. /\ kvCommand'[c] = NoCommand
      /\ \A d \in Clients : d # c => kvCommand'[d] = kvCommand[d]
      /\ kvCommand' \in [Clients -> {NoCommand} \cup RunRecords \cup DropRecords]
  BY <1>1 DEF KVTypes
<1>3. c # 0
  BY KVAssumption
<1>4. /\ \A k \in Keys : kvLock'[k] \in {0, kvLock[k]} /\ kvLock'[k] # c
      /\ kvLock' \in [Keys -> Clients \cup {0}]
  <2>1. CASE Unlock(c)
    BY <1>1, <1>3, <2>1 DEF Unlock, KVTypes
  <2>2. CASE kvCommand[c].op # "run" /\ UNCHANGED kvLock
    BY <1>1, <1>3, <2>2 DEF KVInv, LockInv, KVTypes
  <2> QED
    BY <2>1, <2>2
<1>5. ASSUME NEW d \in Clients PROVE CommandInv(d)'
  <2>1. CASE d = c
    BY <1>2, <2>1 DEF CommandInv, NoCommand
  <2>2. CASE d # c
    BY <1>2, <2>2 DEF KVInv, CommandInv
  <2> QED
    BY <2>1, <2>2
<1>6. ASSUME NEW k \in Keys, kvLock'[k] # 0 PROVE LockInv(k)'
  <2>1. kvLock'[k] = kvLock[k] /\ kvLock[k] \in Clients /\ kvLock[k] # c
    BY <1>1, <1>4, <1>6 DEF KVTypes
  <2> QED
    BY <1>2, <1>6, <2>1 DEF KVInv, LockInv
<1>7. \A k \in Keys : LockInv(k)'
  BY <1>6 DEF LockInv
<1> QED
  BY <1>2, <1>4, <1>5, <1>7

LEMMA FinishInv ==
    ASSUME KVInv, NEW c \in Clients, FinishCommand(c)
    PROVE  KVInv'
<1> DEFINE written == {w.key : w \in Changes(c)}
           new(k) == (CHOOSE w \in Changes(c) : w.key = k).effect[1]
<1>1. KVTypes
  BY DEF KVInv
<1>2. kvCommand[c].op = "run" /\ kvCommand[c] \in RunRecords
  BY <1>1, CommandRecord DEF FinishCommand
<1>3. ASSUME NEW k \in written PROVE new(k) \in KVRows
  <2>1. \E w \in Changes(c) : w.key = k
    OBVIOUS
  <2>2. PICK w : w = (CHOOSE x \in Changes(c) : x.key = k)
    OBVIOUS
  <2>3. w \in Changes(c)
    BY <2>1, <2>2
  <2>4. w \in Writes /\ w.effect # <<>>
    BY <1>2, <2>3 DEF Changes, RunRecords
  <2>5. w.effect[1] \in KVRows
    BY <2>4 DEF Writes, Effects
  <2> QED
    BY <2>2, <2>5
<1>4. \/ UNCHANGED <<kvRow, kvSpec>>
      \/ /\ kvRow' = [k \in Keys |-> IF k \in written THEN new(k) ELSE kvRow[k]]
         /\ kvSpec' = [k \in Keys |-> IF k \in written THEN new(k) ELSE kvSpec[k]]
  BY DEF FinishCommand
<1>5. UNCHANGED kvNow /\ Unlock(c) /\ kvCommand' = [kvCommand EXCEPT ![c] = NoCommand]
  BY DEF FinishCommand
<1> HIDE DEF written, new
<1>6. kvRow' \in [Keys -> KVRows] /\ kvSpec' \in [Keys -> KVRows]
  BY <1>1, <1>3, <1>4 DEF KVTypes
<1>7. RowsFollowCommits'
  <2> SUFFICES ASSUME NEW k \in Keys
               PROVE  kvRow'[k] = kvSpec'[k] \/ (kvRow'[k] = NoRow /\ ExpiredRow(kvSpec'[k], kvNow))
    BY <1>5 DEF RowsFollowCommits
  <2>1. kvRow[k] = kvSpec[k] \/ (kvRow[k] = NoRow /\ ExpiredRow(kvSpec[k], kvNow))
    BY DEF KVInv, RowsFollowCommits
  <2>2. \/ kvRow'[k] = kvRow[k] /\ kvSpec'[k] = kvSpec[k]
        \/ kvRow'[k] = kvSpec'[k]
    BY <1>4
  <2> QED
    BY <2>1, <2>2
<1>8. KVTypes' /\ (\A d \in Clients : CommandInv(d)') /\ \A k \in Keys : LockInv(k)'
  BY <1>1, <1>5, <1>6, EndedCommand DEF KVTypes
<1> QED
  BY <1>7, <1>8 DEF KVInv

LEMMA AbortInv ==
    ASSUME KVInv, NEW c \in Clients, AbortCommand(c)
    PROVE  KVInv'
<1>1. KVTypes' /\ (\A d \in Clients : CommandInv(d)') /\ \A k \in Keys : LockInv(k)'
  BY EndedCommand DEF AbortCommand, KVInv, KVTypes
<1>2. RowsFollowCommits'
  BY DEF AbortCommand, KVInv, RowsFollowCommits
<1> QED
  BY <1>1, <1>2 DEF KVInv

LEMMA FindInv ==
    ASSUME KVInv, NEW c \in Clients, NEW k \in Keys, FindExpired(c, k)
    PROVE  KVInv'
<1> DEFINE new == [op |-> "drop", todo |-> <<k>>, writes |-> {}, seen |-> kvNow]
<1>1. KVTypes
  BY DEF KVInv
<1>2. new \in DropRecords /\ new.op = "drop" /\ new.seen = kvNow
  <2>1. <<k>> \in {<<q>> : q \in Keys} /\ kvNow \in Nat
    BY <1>1 DEF KVTypes
  <2> QED
    BY <2>1 DEF DropRecords
<1>3. kvCommand' = [kvCommand EXCEPT ![c] = new] /\ UNCHANGED <<kvRow, kvNow, kvLock, kvSpec>>
  BY DEF FindExpired
<1>4. kvCommand[c].op = "none" /\ c # 0
  BY <1>1, CommandRecord, KVAssumption DEF FindExpired
<1> HIDE DEF new
<1>5. /\ kvCommand'[c] = new
      /\ \A d \in Clients : d # c => kvCommand'[d] = kvCommand[d]
      /\ kvCommand' \in [Clients -> {NoCommand} \cup RunRecords \cup DropRecords]
  BY <1>1, <1>2, <1>3 DEF KVTypes
<1>6. KVTypes' /\ RowsFollowCommits'
  BY <1>1, <1>3, <1>5 DEF KVInv, KVTypes, RowsFollowCommits
<1>7. ASSUME NEW d \in Clients PROVE CommandInv(d)'
  <2>1. CASE d = c
    <3>1. kvNow <= kvNow
      BY <1>1 DEF KVTypes
    <3> QED
      BY <1>2, <1>3, <1>5, <2>1, <3>1 DEF CommandInv
  <2>2. CASE d # c
    BY <1>3, <1>5, <2>2 DEF KVInv, CommandInv
  <2> QED
    BY <2>1, <2>2
<1>8. ASSUME NEW q \in Keys, kvLock[q] # 0 PROVE LockInv(q)'
  <2>1. kvLock[q] \in Clients /\ kvLock[q] # c
    BY <1>1, <1>4, <1>8 DEF KVInv, KVTypes, LockInv
  <2> QED
    BY <1>3, <1>5, <1>8, <2>1 DEF KVInv, LockInv
<1>9. \A q \in Keys : LockInv(q)'
  BY <1>3, <1>8 DEF LockInv
<1> QED
  BY <1>6, <1>7, <1>9 DEF KVInv

\* What was expired when the deletion looked first is expired now.
LEMMA DropInv ==
    ASSUME KVInv, NEW c \in Clients, DropExpired(c)
    PROVE  KVInv'
<1> DEFINE k == Head(kvCommand[c].todo)
           seen == kvCommand[c].seen
<1>1. KVTypes /\ kvCommand[c].op = "drop" /\ kvCommand[c].op # "run"
  BY DEF KVInv, DropExpired
<1>2. kvCommand[c] \in DropRecords
  BY <1>1, CommandRecord
<1>3. k \in Keys /\ seen \in Nat /\ seen <= kvNow
  BY <1>1, <1>2 DEF DropRecords, KVInv, CommandInv
<1>4. /\ kvRow' = IF ExpiredRow(kvRow[k], seen) THEN [kvRow EXCEPT ![k] = NoRow] ELSE kvRow
      /\ kvCommand' = [kvCommand EXCEPT ![c] = NoCommand]
      /\ UNCHANGED <<kvNow, kvLock, kvSpec>>
  BY DEF DropExpired, StillExpired
<1> HIDE DEF k, seen
<1>5. NoRow \in KVRows
  BY DEF KVRows
<1>6. kvRow' \in [Keys -> KVRows]
  BY <1>1, <1>4, <1>5 DEF KVTypes
<1>7. KVTypes' /\ (\A d \in Clients : CommandInv(d)') /\ \A q \in Keys : LockInv(q)'
  BY <1>1, <1>4, <1>6, EndedCommand DEF KVTypes
<1>8. RowsFollowCommits'
  <2> SUFFICES ASSUME NEW q \in Keys
               PROVE  kvRow'[q] = kvSpec[q] \/ (kvRow'[q] = NoRow /\ ExpiredRow(kvSpec[q], kvNow))
    BY <1>4 DEF RowsFollowCommits
  <2>1. kvRow[q] = kvSpec[q] \/ (kvRow[q] = NoRow /\ ExpiredRow(kvSpec[q], kvNow))
    BY DEF KVInv, RowsFollowCommits
  <2>2. CASE q = k /\ ExpiredRow(kvRow[k], seen)
    <3>1. kvRow[q] # NoRow /\ kvRow[q] \in KVRows
      BY <1>1, <2>2 DEF ExpiredRow, KVTypes
    <3>2. kvRow[q][1].expires \in Nat /\ kvNow \in Nat
      BY <1>1, <3>1, RowShape DEF KVTypes
    <3>3. ExpiredRow(kvRow[q], kvNow)
      BY <1>3, <2>2, <3>2 DEF ExpiredRow
    <3>4. kvRow'[q] = NoRow
      BY <1>1, <1>3, <1>4, <2>2 DEF KVTypes
    <3> QED
      BY <2>1, <3>1, <3>3, <3>4
  <2>3. CASE ~(q = k /\ ExpiredRow(kvRow[k], seen))
    <3>1. kvRow'[q] = kvRow[q]
      BY <1>1, <1>4, <2>3 DEF KVTypes
    <3> QED
      BY <2>1, <3>1
  <2> QED
    BY <2>2, <2>3
<1> QED
  BY <1>7, <1>8 DEF KVInv

LEMMA ClockInv ==
    ASSUME KVInv, KVClockTicks
    PROVE  KVInv'
<1>1. KVTypes /\ kvNow \in Nat /\ kvNow' = kvNow + 1
  BY DEF KVInv, KVTypes, KVClockTicks
<1>2. KVTypes' /\ \A k \in Keys : LockInv(k)'
  BY <1>1 DEF KVInv, KVTypes, KVClockTicks, LockInv
<1>3. ASSUME NEW k \in Keys PROVE ExpiredRow(kvSpec[k], kvNow) => ExpiredRow(kvSpec[k], kvNow')
  <2>1. kvSpec[k] \in KVRows
    BY <1>1 DEF KVTypes
  <2>2. kvSpec[k] # NoRow => kvSpec[k][1].expires \in Nat
    BY <1>1, <2>1, RowShape
  <2> QED
    BY <1>1, <2>2 DEF ExpiredRow
<1>4. RowsFollowCommits'
  BY <1>3 DEF KVInv, RowsFollowCommits, KVClockTicks
<1>5. ASSUME NEW c \in Clients PROVE CommandInv(c)'
  <2>1. kvCommand[c].op = "drop" => kvCommand[c].seen \in Nat
    BY <1>1, CommandRecord DEF DropRecords
  <2> QED
    BY <1>1, <2>1 DEF KVInv, CommandInv, KVClockTicks
<1> QED
  BY <1>2, <1>4, <1>5 DEF KVInv

LEMMA KVInitInv == KVInit => KVInv
<1> SUFFICES ASSUME KVInit PROVE KVInv
  OBVIOUS
<1>1. KVTypes
  BY DEF KVInit, KVTypes, KVRows
<1>2. RowsFollowCommits
  BY DEF KVInit, RowsFollowCommits
<1>3. \A c \in Clients : CommandInv(c)
  BY DEF KVInit, CommandInv, NoCommand
<1>4. \A k \in Keys : LockInv(k)
  BY DEF KVInit, LockInv
<1> QED
  BY <1>1, <1>2, <1>3, <1>4 DEF KVInv

LEMMA KVStepInv == KVInv /\ [KVNext]_kvVars => KVInv'
<1> SUFFICES ASSUME KVInv, [KVNext]_kvVars PROVE KVInv'
  OBVIOUS
<1>1. ASSUME NEW c \in Clients, NEW cmd \in Commands, NEW keys \in SUBSET Keys,
             StartCommand(c, cmd, keys)
      PROVE  KVInv'
  BY <1>1, StartInv
<1>2. ASSUME NEW c \in Clients, VisitKey(c) \/ FinishCommand(c) \/ AbortCommand(c) \/ DropExpired(c)
      PROVE  KVInv'
  BY <1>2, VisitKeyInv, FinishInv, AbortInv, DropInv
<1>3. ASSUME NEW c \in Clients, NEW k \in Keys, FindExpired(c, k)
      PROVE  KVInv'
  BY <1>3, FindInv
<1>4. ASSUME KVClockTicks PROVE KVInv'
  BY <1>4, ClockInv
<1>5. ASSUME UNCHANGED kvVars PROVE KVInv'
  BY <1>5 DEF kvVars, KVInv, KVTypes, RowsFollowCommits, CommandInv, LockInv
<1> QED
  BY <1>1, <1>2, <1>3, <1>4, <1>5 DEF KVNext

(***************************************************************************)
(* KVGet, KVTTL and KVPurgeExpired never delete a value that a command     *)
(* stored after they looked (lazyDeleteExpiredKV repeats the expiry test   *)
(* in the statement that deletes).                                         *)
(***************************************************************************)
THEOREM KeysReadAsWritten == KVInit /\ [][KVNext]_kvVars => []ReadsWhatWasWritten
<1>1. ASSUME KVInv PROVE ReadsWhatWasWritten
  <2> SUFFICES ASSUME NEW k \in Keys
               PROVE  ActiveRow(kvRow[k], kvNow) = ActiveRow(kvSpec[k], kvNow)
    BY DEF ReadsWhatWasWritten
  <2>1. kvRow[k] = kvSpec[k] \/ (kvRow[k] = NoRow /\ ExpiredRow(kvSpec[k], kvNow))
    BY <1>1 DEF KVInv, RowsFollowCommits
  <2>2. kvNow \in Nat /\ NoRow \in KVRows
    BY <1>1 DEF KVInv, KVTypes, KVRows
  <2> QED
    BY <2>1, <2>2, RowShape DEF ActiveRow
<1>2. KVInv => ReadsWhatWasWritten
  BY <1>1
<1> QED
  BY <1>2, KVInitInv, KVStepInv, PTL

(***************************************************************************)
(* MSET and DEL lock the rows of their keys in the order of the keys, so   *)
(* two of them never hold what the other waits for (normalizeKVKeys).      *)
(***************************************************************************)
THEOREM LocksAreOrdered == KVInit /\ [][KVNext]_kvVars => []NoLockCycle
<1>1. ASSUME KVInv PROVE NoLockCycle
  <2> DEFINE waitsFor(c) == IF kvCommand[c].op = "run" /\ kvCommand[c].todo # <<>>
                            THEN kvLock[Head(kvCommand[c].todo)] ELSE 0
  <2> SUFFICES ASSUME NEW c \in Clients, NEW d \in Clients, waitsFor(c) = d, waitsFor(d) = c
               PROVE  FALSE
    BY DEF NoLockCycle
  <2> DEFINE p == kvCommand[c].todo
             q == kvCommand[d].todo
  <2>1. c # 0 /\ d # 0 /\ KVTypes
    BY <1>1, KVAssumption DEF KVInv
  <2>2. /\ kvCommand[c].op = "run" /\ p # <<>> /\ kvLock[Head(p)] = d
        /\ kvCommand[d].op = "run" /\ q # <<>> /\ kvLock[Head(q)] = c
    BY <2>1
  <2>3. p \in Seq(Keys) /\ q \in Seq(Keys)
    BY <2>1, <2>2, CommandRecord DEF RunRecords
  <2> HIDE DEF p, q
  <2>4. /\ Head(p) \in Keys /\ Head(p) = p[1] /\ 1 \in DOMAIN p
        /\ Head(q) \in Keys /\ Head(q) = q[1] /\ 1 \in DOMAIN q
    BY <2>2, <2>3, RestOfOrder
  <2>5. Head(p) < Head(q)
    BY <1>1, <2>1, <2>2, <2>4 DEF KVInv, LockInv, q
  <2>6. Head(q) < Head(p)
    BY <1>1, <2>1, <2>2, <2>4 DEF KVInv, LockInv, p
  <2>7. Head(p) \in Nat /\ Head(q) \in Nat
    BY <2>4, KVAssumption
  <2> HIDE DEF waitsFor
  <2> QED
    BY <2>5, <2>6, <2>7
<1>2. KVInv => NoLockCycle
  BY <1>1
<1> QED
  BY <1>2, KVInitInv, KVStepInv, PTL

(***************************************************************************)
(* No update is lost: a row that a command found, and from which it has    *)
(* computed what it will write, is changed by nobody else before it ends,  *)
(* so that concurrent INCR and compare-and-set commands all count          *)
(* (KVIncrBy, KVCompareAndSwap: the row is read FOR UPDATE; one found      *)
(* absent is created, or the command fails).                               *)
(***************************************************************************)
RowsHeldStill ==
    [][\A k \in Keys :
          kvLock[k] # 0 /\ kvRow'[k] # kvRow[k] =>
              kvLock'[k] = 0 /\ kvCommand'[kvLock[k]] = NoCommand]_kvVars

\* What a command has to write, it holds, or found absent and is going to create.
HeldWrites(c) ==
    kvCommand[c].op = "run" =>
        \A w \in kvCommand[c].writes : IF w.absent THEN w.effect # <<NoRow>> ELSE kvLock[w.key] = c

RowsHeld ==
    /\ \A k \in Keys : kvLock[k] # 0 => kvRow[k] # NoRow
    /\ \A c \in Clients : HeldWrites(c)

LEMMA NothingToDelete ==
    ASSUME KVTypes, NEW cmd \in Commands
    PROVE  Effect(cmd, NoRow) # <<NoRow>>
<1>1. \A v, e : <<KVRecord(v, e)>> # <<NoRow>>
  BY DEF KVRecord, NoRow
<1>2. <<>> # <<NoRow>>
  OBVIOUS
<1>3. ActiveRow(NoRow, kvNow) = NoRow /\ ~ExpiredRow(NoRow, kvNow)
  BY DEF ActiveRow, ExpiredRow
<1>4. CASE cmd.op \in {"set", "cas"}
  <2>1. Effect(cmd, NoRow) \in {<<>>, <<KVRecord(cmd.value, ExpiresAt(cmd.ttl))>>}
    BY <1>3, <1>4 DEF Effect
  <2> QED
    BY <1>1, <1>2, <2>1
<1>5. CASE cmd.op \in {"del", "expire"}
  <2>1. Effect(cmd, NoRow) = <<>>
    BY <1>3, <1>5 DEF Effect
  <2> QED
    BY <1>2, <2>1
<1>6. CASE cmd.op \in {"incr", "mset"}
  <2>1. Effect(cmd, NoRow) \in {<<KVRecord(1, 0)>>, <<KVRecord(cmd.value, 0)>>}
    BY <1>3, <1>6 DEF Effect
  <2> QED
    BY <1>1, <2>1
<1> QED
  BY <1>4, <1>5, <1>6, CommandShape

LEMMA VisitHolds ==
    ASSUME KVInv, RowsHeld, NEW c \in Clients, NEW cmd \in Commands,
           NEW order \in Seq(Keys), order # <<>>, NEW writes,
           \A w \in writes : IF w.absent THEN w.effect # <<NoRow>> ELSE kvLock[w.key] = c,
           Visit(c, cmd, order, writes), UNCHANGED kvRow
    PROVE  RowsHeld'
<1> DEFINE k == Head(order)
           write == [key |-> k, absent |-> kvRow[k] = NoRow, effect |-> Effect(cmd, kvRow[k])]
           new == [op |-> "run", cmd |-> IF Tail(order) = <<>> THEN <<>> ELSE <<cmd>>,
                   todo |-> Tail(order), writes |-> writes \cup {write}]
<1>1. k \in Keys /\ c # 0 /\ KVTypes
  BY RestOfOrder, KVAssumption DEF KVInv
<1>2. /\ kvRow[k] # NoRow => kvLock[k] = 0
      /\ kvLock' = IF kvRow[k] # NoRow THEN [kvLock EXCEPT ![k] = c] ELSE kvLock
      /\ kvCommand' = [kvCommand EXCEPT ![c] = new]
  BY DEF Visit
<1>3. new.writes = writes \cup {write}
  OBVIOUS
<1>4. write.key = k /\ write.absent = (kvRow[k] = NoRow) /\ write.effect = Effect(cmd, kvRow[k])
  OBVIOUS
<1> HIDE DEF new, write, k
<1>5. /\ kvCommand'[c] = new
      /\ \A d \in Clients : d # c => kvCommand'[d] = kvCommand[d]
  BY <1>1, <1>2 DEF KVTypes
<1>6. /\ \A q : q # k => kvLock'[q] = kvLock[q]
      /\ IF kvRow[k] # NoRow THEN kvLock'[k] = c ELSE kvLock'[k] = kvLock[k]
      /\ \A q, d : d # 0 /\ kvLock[q] = d => kvLock'[q] = d
  <2>1. DOMAIN kvLock = Keys
    BY <1>1 DEF KVTypes
  <2> QED
    BY <1>1, <1>2, <2>1
<1>7. \A q \in Keys : kvLock'[q] # 0 => kvRow'[q] # NoRow
  BY <1>6 DEF RowsHeld
<1>8. HeldWrites(c)'
  <2> SUFFICES ASSUME NEW w \in writes \cup {write}
               PROVE  IF w.absent THEN w.effect # <<NoRow>> ELSE kvLock'[w.key] = c
    BY <1>3, <1>5 DEF HeldWrites
  <2>1. CASE w \in writes
    BY <1>1, <1>6, <2>1
  <2>2. CASE w = write
    <3>1. w.absent => w.effect # <<NoRow>>
      BY <1>1, <1>4, <2>2, NothingToDelete
    <3>2. ~w.absent => kvLock'[w.key] = c
      BY <1>4, <1>6, <2>2
    <3> QED
      BY <3>1, <3>2
  <2> QED
    BY <2>1, <2>2
<1>9. ASSUME NEW d \in Clients, d # c PROVE HeldWrites(d)'
  <2>1. d # 0 /\ kvCommand'[d] = kvCommand[d]
    BY <1>5, <1>9, KVAssumption
  <2> QED
    BY <1>6, <2>1 DEF RowsHeld, HeldWrites
<1> QED
  BY <1>7, <1>8, <1>9 DEF RowsHeld

\* A commit changes rows that the command holds, and creates others.
LEMMA CommitTouches ==
    ASSUME KVInv, RowsHeld, NEW c \in Clients, FinishCommand(c), NEW k \in Keys, kvRow'[k] # kvRow[k]
    PROVE  kvLock[k] \in {0, c}
<1> DEFINE written == {w.key : w \in Changes(c)}
           new(q) == (CHOOSE w \in Changes(c) : w.key = q).effect[1]
<1>1. /\ kvCommand[c].op = "run" /\ ~CreateConflicts(c)
      /\ kvRow' = [q \in Keys |-> IF q \in written THEN new(q) ELSE kvRow[q]]
  BY DEF FinishCommand
<1> HIDE DEF new
<1>2. k \in written
  BY <1>1
<1>3. PICK w \in Changes(c) : w.key = k
  BY <1>2
<1>4. w \in kvCommand[c].writes
  BY <1>3 DEF Changes
<1>5. IF w.absent THEN w.effect # <<NoRow>> ELSE kvLock[w.key] = c
  BY <1>1, <1>4 DEF RowsHeld, HeldWrites
<1>6. w.absent => kvRow[k] = NoRow
  BY <1>1, <1>3, <1>5 DEF CreateConflicts
<1> QED
  BY <1>3, <1>5, <1>6 DEF RowsHeld

\* A command that ends lets go of its own rows.
LEMMA EndHolds ==
    ASSUME KVInv, RowsHeld, NEW c \in Clients, kvCommand' = [kvCommand EXCEPT ![c] = NoCommand],
           Unlock(c) \/ UNCHANGED kvLock,
           \A k \in Keys : kvRow'[k] # kvRow[k] => kvLock'[k] = 0
    PROVE  RowsHeld'
<1>1. KVTypes /\ c # 0
  BY KVAssumption DEF KVInv
<1>2. /\ kvCommand'[c] = NoCommand
      /\ \A d \in Clients : d # c => kvCommand'[d] = kvCommand[d]
  BY <1>1 DEF KVTypes
<1>3. \A q \in Keys : kvLock'[q] \in {0, kvLock[q]} /\ (kvLock[q] # c => kvLock'[q] = kvLock[q])
  BY DEF Unlock
<1>4. \A q \in Keys : kvLock'[q] # 0 => kvRow'[q] # NoRow
  BY <1>3 DEF RowsHeld
<1>5. HeldWrites(c)'
  BY <1>2 DEF HeldWrites, NoCommand
<1>6. ASSUME NEW d \in Clients, d # c PROVE HeldWrites(d)'
  <2> SUFFICES ASSUME kvCommand[d].op = "run", NEW w \in kvCommand[d].writes
               PROVE  IF w.absent THEN w.effect # <<NoRow>> ELSE kvLock'[w.key] = d
    BY <1>2, <1>6 DEF HeldWrites
  <2>1. w.key \in Keys
    BY <1>1, CommandRecord DEF RunRecords, Writes
  <2>2. IF w.absent THEN w.effect # <<NoRow>> ELSE kvLock[w.key] = d
    BY DEF RowsHeld, HeldWrites
  <2> QED
    BY <1>3, <1>6, <2>1, <2>2
<1> QED
  BY <1>4, <1>5, <1>6 DEF RowsHeld

LEMMA HeldInit == KVInit => RowsHeld
  BY DEF KVInit, RowsHeld, HeldWrites, NoCommand

LEMMA HeldStep == KVInv /\ RowsHeld /\ [KVNext]_kvVars => RowsHeld'
<1> SUFFICES ASSUME KVInv, RowsHeld, [KVNext]_kvVars PROVE RowsHeld'
  OBVIOUS
<1>0. KVTypes
  BY DEF KVInv
<1>1. ASSUME NEW c \in Clients, NEW cmd \in Commands, NEW keys \in SUBSET Keys, StartCommand(c, cmd, keys)
      PROVE  RowsHeld'
  <2>1. PICK order \in KeyOrders(keys) : Visit(c, cmd, order, {})
    BY <1>1 DEF StartCommand
  <2>2. order \in Seq(Keys) /\ order # <<>> /\ UNCHANGED kvRow
    BY <1>1, OrderIsSeq DEF StartCommand
  <2> QED
    BY <2>1, <2>2, VisitHolds
<1>2. ASSUME NEW c \in Clients, VisitKey(c) PROVE RowsHeld'
  <2> DEFINE cmd == kvCommand[c]
  <2>1. cmd \in RunRecords /\ cmd.op = "run" /\ cmd.todo # <<>>
    BY <1>0, <1>2, CommandRecord DEF VisitKey
  <2>2. cmd.cmd[1] \in Commands
    <3>1. cmd.cmd # <<>>
      BY <2>1 DEF KVInv, CommandInv
    <3> QED
      BY <2>1, <3>1 DEF RunRecords
  <2>3. cmd.todo \in Seq(Keys)
    BY <2>1 DEF RunRecords
  <2>4. \A w \in cmd.writes : IF w.absent THEN w.effect # <<NoRow>> ELSE kvLock[w.key] = c
    BY <2>1 DEF RowsHeld, HeldWrites
  <2>5. Visit(c, cmd.cmd[1], cmd.todo, cmd.writes) /\ UNCHANGED kvRow
    BY <1>2 DEF VisitKey
  <2> QED
    BY <2>1, <2>2, <2>3, <2>4, <2>5, VisitHolds
<1>3. ASSUME NEW c \in Clients, FinishCommand(c) PROVE RowsHeld'
  <2>1. kvCommand' = [kvCommand EXCEPT ![c] = NoCommand] /\ Unlock(c)
    BY <1>3 DEF FinishCommand
  <2>2. \A k \in Keys : kvRow'[k] # kvRow[k] => kvLock'[k] = 0
    BY <1>3, <2>1, CommitTouches DEF Unlock
  <2> QED
    BY <2>1, <2>2, EndHolds
<1>4. ASSUME NEW c \in Clients, AbortCommand(c) PROVE RowsHeld'
  BY <1>4, EndHolds DEF AbortCommand
<1>5. ASSUME NEW c \in Clients, DropExpired(c) PROVE RowsHeld'
  <2>1. /\ kvCommand' = [kvCommand EXCEPT ![c] = NoCommand] /\ UNCHANGED kvLock
        /\ kvLock[Head(kvCommand[c].todo)] = 0
        /\ \A k \in Keys : k # Head(kvCommand[c].todo) => kvRow'[k] = kvRow[k]
    BY <1>0, <1>5 DEF DropExpired, KVTypes
  <2> QED
    BY <2>1, EndHolds
<1>6. ASSUME NEW c \in Clients, NEW k \in Keys, FindExpired(c, k) PROVE RowsHeld'
  <2> DEFINE new == [op |-> "drop", todo |-> <<k>>, writes |-> {}, seen |-> kvNow]
  <2>1. kvCommand' = [kvCommand EXCEPT ![c] = new] /\ UNCHANGED <<kvRow, kvLock>> /\ new.op # "run"
    BY <1>6 DEF FindExpired
  <2> HIDE DEF new
  <2>2. kvCommand'[c] = new /\ \A d \in Clients : d # c => kvCommand'[d] = kvCommand[d]
    BY <1>0, <2>1 DEF KVTypes
  <2> QED
    BY <2>1, <2>2 DEF RowsHeld, HeldWrites
<1>7. ASSUME UNCHANGED <<kvRow, kvLock, kvCommand>> PROVE RowsHeld'
  BY <1>7 DEF RowsHeld, HeldWrites
<1> QED
  BY <1>1, <1>2, <1>3, <1>4, <1>5, <1>6, <1>7 DEF KVNext, kvVars, KVClockTicks

\* Nobody changes a row under a command that has found it; the command changes it when it commits,
\* and that is its end.
THEOREM UpdatesAreKept == KVInit /\ [][KVNext]_kvVars => RowsHeldStill
<1> DEFINE Still == \A k \in Keys :
                       kvLock[k] # 0 /\ kvRow'[k] # kvRow[k] =>
                           kvLock'[k] = 0 /\ kvCommand'[kvLock[k]] = NoCommand
<1>1. KVInv /\ RowsHeld /\ KVNext => Still
  <2> SUFFICES ASSUME KVInv, RowsHeld, KVNext, NEW k \in Keys, kvLock[k] # 0, kvRow'[k] # kvRow[k]
               PROVE  kvLock'[k] = 0 /\ kvCommand'[kvLock[k]] = NoCommand
    OBVIOUS
  <2>0. KVTypes
    BY DEF KVInv
  <2>1. ASSUME NEW c \in Clients, FinishCommand(c)
        PROVE  kvLock'[k] = 0 /\ kvCommand'[kvLock[k]] = NoCommand
    <3>1. kvLock[k] = c
      BY <2>1, CommitTouches
    <3> QED
      BY <2>0, <2>1, <3>1 DEF FinishCommand, Unlock, KVTypes
  <2>2. ASSUME NEW c \in Clients, DropExpired(c) PROVE FALSE
    BY <2>0, <2>2 DEF DropExpired, KVTypes
  <2>3. UNCHANGED kvRow \/ \E c \in Clients : FinishCommand(c) \/ DropExpired(c)
    BY DEF KVNext, StartCommand, VisitKey, AbortCommand, FindExpired, KVClockTicks
  <2> QED
    BY <2>1, <2>2, <2>3
<1> HIDE DEF Still
<1>2. KVInit /\ [][KVNext]_kvVars => [][Still]_kvVars
  BY <1>1, KVInitInv, KVStepInv, HeldInit, HeldStep, PTL
<1> QED
  BY <1>2 DEF RowsHeldStill, Still

-------------------------------------------------------------------------------
(***************************************************************************)
(* Price rules and their imports.                                          *)
(***************************************************************************)
PriceSpec == PriceInit /\ [][PriceNext]_priceVars

RuleRecords ==
    [identity : Identities, source : {"manual", "sync"}, enabled : BOOLEAN, revision : Nat, by : Nat, deleted : BOOLEAN]
SeenRules == [id : Nat, rule : RuleRecords]
ImportActions == {"create", "update_sync", "overwrite", "skip", "review"}
PreviewRows ==
    {row \in [identity : Identities, action : ImportActions, existing : Seq(SeenRules)] :
        row.existing # <<>> => row.existing[1] \in SeenRules}

PriceTypes ==
    /\ priceRules \in Seq(RuleRecords)
    /\ priceNow \in Nat /\ priceEdits \in Nat /\ priceApplied \in {0, 1}
    /\ priceCall \in [Callers -> {"none", "writing"}]
    /\ pricePreview # <<>> =>
          /\ pricePreview[1].rows \subseteq PreviewRows /\ IsFiniteSet(pricePreview[1].rows)
          /\ pricePreview[1].expires \in Nat
    /\ priceOps # <<>> => priceOps[1] \in Nat

\* A rule a preview saw has since kept its revision and all it says, or has a later revision,
\* or is deleted.
SeenRuleStands(seen, rules) ==
    /\ seen.id \in DOMAIN rules
    /\ seen.rule.revision <= rules[seen.id].revision
    /\ ~rules[seen.id].deleted /\ rules[seen.id].revision = seen.rule.revision => rules[seen.id] = seen.rule
PreviewsStand ==
    pricePreview # <<>> => \A row \in pricePreview[1].rows :
        row.existing # <<>> => SeenRuleStands(row.existing[1], priceRules)

\* Who is about to write holds a preview that may be applied.
WritersInTime ==
    \A c \in Callers : priceCall[c] = "writing" => pricePreview # <<>> /\ priceNow <= pricePreview[1].expires

\* The record of an import outlives the preview it came from.
RecordsOutlivePreviews ==
    /\ pricePreview # <<>> => pricePreview[1].expires <= priceNow + PreviewTTL
    /\ priceOps # <<>> => pricePreview # <<>> /\ pricePreview[1].expires <= priceOps[1] + PreviewTTL
    /\ priceApplied # 0 => pricePreview # <<>> /\ (priceOps # <<>> \/ pricePreview[1].expires < priceNow)

PriceInv == PriceTypes /\ PreviewsStand /\ WritersInTime /\ RecordsOutlivePreviews

LEMMA PriceInitInv == PriceInit => PriceInv
  BY DEF PriceInit, PriceInv, PriceTypes, PreviewsStand, WritersInTime, RecordsOutlivePreviews

\* Whatever happens to a rule advances its revision or deletes it.
Advanced(r, q) == q = r \/ q.revision > r.revision \/ (q.deleted /\ q.revision >= r.revision)

LEMMA RuleEdited ==
    ASSUME NEW r \in RuleRecords, NEW on \in BOOLEAN, NEW by \in Nat, NEW v \in Nat
    PROVE  /\ [r EXCEPT !.enabled = on, !.by = by, !.revision = v] \in RuleRecords
           /\ [r EXCEPT !.enabled = on, !.by = by, !.revision = v].revision = v
  BY DEF RuleRecords

LEMMA RuleDeleted ==
    ASSUME NEW r \in RuleRecords
    PROVE  LET q == [r EXCEPT !.deleted = TRUE]
           IN  q \in RuleRecords /\ q.revision = r.revision /\ q.deleted /\ r.revision \in Nat
  BY DEF RuleRecords

LEMMA RuleSynced ==
    ASSUME NEW r \in RuleRecords, NEW v \in Nat
    PROVE  /\ [r EXCEPT !.source = "sync", !.by = 0, !.revision = v] \in RuleRecords
           /\ [r EXCEPT !.source = "sync", !.by = 0, !.revision = v].revision = v
  BY DEF RuleRecords

LEMMA RulesAdvance ==
    ASSUME PreviewsStand, PriceTypes, priceRules' \in Seq(RuleRecords), UNCHANGED pricePreview,
           \A i \in DOMAIN priceRules : i \in DOMAIN priceRules' /\ Advanced(priceRules[i], priceRules'[i])
    PROVE  PreviewsStand'
<1> SUFFICES ASSUME pricePreview # <<>>, NEW row \in pricePreview[1].rows, row.existing # <<>>
             PROVE  SeenRuleStands(row.existing[1], priceRules')
  BY DEF PreviewsStand
<1> DEFINE seen == row.existing[1]
<1>1. SeenRuleStands(seen, priceRules) /\ seen \in SeenRules
  BY DEF PreviewsStand, PriceTypes, PreviewRows
<1>2. seen.id \in DOMAIN priceRules' /\ Advanced(priceRules[seen.id], priceRules'[seen.id])
  BY <1>1 DEF SeenRuleStands
<1>3. priceRules[seen.id] \in RuleRecords /\ priceRules'[seen.id] \in RuleRecords
  BY <1>1, <1>2 DEF SeenRuleStands, PriceTypes
<1>4. /\ seen.rule.revision \in Nat /\ priceRules[seen.id].revision \in Nat /\ priceRules'[seen.id].revision \in Nat
  BY <1>1, <1>3 DEF SeenRules, RuleRecords
<1>5. CASE priceRules'[seen.id] = priceRules[seen.id]
  BY <1>1, <1>2, <1>5 DEF SeenRuleStands
<1>6. CASE priceRules'[seen.id].revision > priceRules[seen.id].revision
  <2>1. seen.rule.revision < priceRules'[seen.id].revision
    BY <1>1, <1>4, <1>6 DEF SeenRuleStands
  <2> QED
    BY <2>1, <1>2, <1>4 DEF SeenRuleStands
<1>7. CASE priceRules'[seen.id].deleted /\ priceRules'[seen.id].revision >= priceRules[seen.id].revision
  BY <1>1, <1>2, <1>4, <1>7 DEF SeenRuleStands
<1> QED
  BY <1>2, <1>5, <1>6, <1>7 DEF Advanced

-------------------------------------------------------------------------------
(* What an import writes. *)

LEMMA SetToSeqIsSeq ==
    ASSUME NEW S, IsFiniteSet(S), NEW T, S \subseteq T
    PROVE  SetToSeq(S) \in Seq(T)
<1>1. Cardinality(S) \in Nat /\ ExistsBijection(1 .. Cardinality(S), S)
  BY FS_CardinalityType
<1>2. \E f \in [1 .. Cardinality(S) -> S] : IsInjective(f)
  BY <1>1 DEF ExistsBijection, Bijection, Injection, IsInjective
<1>3. SetToSeq(S) \in [1 .. Cardinality(S) -> S]
  BY <1>2 DEF SetToSeq
<1>4. SetToSeq(S) \in [1 .. Cardinality(S) -> T]
  BY <1>3
<1> QED
  BY <1>1, <1>4

LEMMA CreatedAreRules ==
    ASSUME PriceTypes, pricePreview # <<>>
    PROVE  CreatedRules \in Seq(RuleRecords)
<1> DEFINE R == {r \in SelectedRows : r.existing = <<>>}
           New(row) == RuleBy(row.identity, "sync", TRUE, 0)
           S == {New(row) : row \in R}
           f == [row \in R |-> New(row)]
<1>1. IsFiniteSet(R)
  <2>1. R \in SUBSET pricePreview[1].rows /\ IsFiniteSet(pricePreview[1].rows)
    BY DEF PriceTypes, SelectedRows
  <2> QED
    BY <2>1, FS_Subset
<1>2. f \in Surjection(R, S)
  BY DEF Surjection
<1>3. IsFiniteSet(S)
  <2> HIDE DEF f, S, R
  <2> QED
    BY <1>1, <1>2, FS_Surjection
<1>4. S \subseteq RuleRecords
  <2>1. \A row \in R : row.identity \in Identities
    BY DEF PriceTypes, SelectedRows, PreviewRows
  <2>2. \A id \in Identities : RuleBy(id, "sync", TRUE, 0) \in RuleRecords
    BY DEF RuleBy, RuleRecords
  <2> QED
    BY <2>1, <2>2
<1>5. CreatedRules = SetToSeq(S)
  BY DEF CreatedRules
<1> HIDE DEF S
<1> QED
  BY <1>3, <1>4, <1>5, SetToSeqIsSeq

LEMMA UpdatedAreRules ==
    ASSUME PriceTypes, PreviewsStand, pricePreview # <<>>, RevisionsMatch
    PROVE  /\ UpdatedRules \in Seq(RuleRecords) /\ DOMAIN UpdatedRules = DOMAIN priceRules
           /\ Len(UpdatedRules) = Len(priceRules)
           /\ \A i \in DOMAIN priceRules :
                 \/ UpdatedRules[i] = priceRules[i]
                 \/ /\ UpdatedRules[i].revision > priceRules[i].revision
                    /\ \E row \in SelectedRows :
                          row.existing # <<>> /\ row.existing[1] = [id |-> i, rule |-> priceRules[i]]
<1> DEFINE Touches(row, i) == row.existing # <<>> /\ row.existing[1].id = i
           RowFor(i) == CHOOSE row \in SelectedRows : Touches(row, i)
<1>1. ASSUME NEW i \in DOMAIN priceRules, NEW touch \in SelectedRows, Touches(touch, i)
      PROVE  /\ RowFor(i) \in SelectedRows /\ UpdatedRules[i] = SyncedRule(RowFor(i))
             /\ SyncedRule(RowFor(i)) \in RuleRecords /\ SyncedRule(RowFor(i)).revision > priceRules[i].revision
             /\ RowFor(i).existing # <<>> /\ RowFor(i).existing[1] = [id |-> i, rule |-> priceRules[i]]
  <2> DEFINE w == RowFor(i)
  <2>1. w \in SelectedRows /\ Touches(w, i)
    BY <1>1
  <2>2. UpdatedRules[i] = SyncedRule(w)
    BY <1>1 DEF UpdatedRules
  <2> HIDE DEF w
  <2>3. /\ w \in pricePreview[1].rows /\ w.existing # <<>> /\ w.existing[1] \in SeenRules
        /\ SeenRuleStands(w.existing[1], priceRules)
    BY <2>1 DEF SelectedRows, PriceTypes, PreviewRows, PreviewsStand
  <2>4. w.existing[1].id = i /\ w.existing[1].rule = priceRules[i] /\ priceRules[i] \in RuleRecords
    BY <2>1, <2>3 DEF RevisionsMatch, SeenRuleStands, SeenRules
  <2>5. w.existing[1] = [id |-> i, rule |-> priceRules[i]]
    BY <2>3, <2>4 DEF SeenRules
  <2>6. SyncedRule(w) \in RuleRecords /\ SyncedRule(w).revision > priceRules[i].revision
    <3>1. SyncedRule(w) = [priceRules[i] EXCEPT !.source = "sync", !.by = 0, !.revision = priceRules[i].revision + 1]
      BY <2>4 DEF SyncedRule
    <3>2. priceRules[i].revision \in Nat
      BY <2>4 DEF RuleRecords
    <3>3. priceRules[i].revision + 1 \in Nat /\ priceRules[i].revision + 1 > priceRules[i].revision
      BY <3>2
    <3>4. ASSUME NEW r \in RuleRecords, NEW v \in Nat, r = priceRules[i], v = priceRules[i].revision + 1
          PROVE  SyncedRule(w) \in RuleRecords /\ SyncedRule(w).revision = v
      <4>1. SyncedRule(w) = [r EXCEPT !.source = "sync", !.by = 0, !.revision = v]
        BY <3>1, <3>4
      <4> QED
        BY <4>1, RuleSynced
    <3>5. SyncedRule(w) \in RuleRecords /\ SyncedRule(w).revision = priceRules[i].revision + 1
      BY <3>1, <3>3, <3>4, <2>4
    <3> QED
      BY <3>3, <3>5
  <2> QED
    BY <2>1, <2>2, <2>3, <2>5, <2>6 DEF w
<1>2. ASSUME NEW i \in DOMAIN priceRules, ~\E row \in SelectedRows : Touches(row, i)
      PROVE  UpdatedRules[i] = priceRules[i]
  BY <1>2 DEF UpdatedRules
<1>3. priceRules \in Seq(RuleRecords) /\ DOMAIN priceRules = 1 .. Len(priceRules) /\ Len(priceRules) \in Nat
  BY DEF PriceTypes
<1>4. \A i \in DOMAIN priceRules : UpdatedRules[i] \in RuleRecords
  <2> TAKE i \in DOMAIN priceRules
  <2>1. CASE \E row \in SelectedRows : Touches(row, i)
    <3> PICK touch \in SelectedRows : Touches(touch, i)
      BY <2>1
    <3> HIDE DEF RowFor, Touches
    <3> QED
      BY <1>1
  <2>2. CASE ~\E row \in SelectedRows : Touches(row, i)
    BY <1>2, <1>3, <2>2
  <2> QED
    BY <2>1, <2>2
<1>5. DOMAIN UpdatedRules = DOMAIN priceRules /\ UpdatedRules = [i \in DOMAIN priceRules |-> UpdatedRules[i]]
  BY DEF UpdatedRules
<1>6. UpdatedRules \in [1 .. Len(priceRules) -> RuleRecords]
  BY <1>3, <1>4, <1>5
<1>7. UpdatedRules \in Seq(RuleRecords) /\ Len(UpdatedRules) = Len(priceRules)
  BY <1>3, <1>6
<1>8. \A i \in DOMAIN priceRules :
         \/ UpdatedRules[i] = priceRules[i]
         \/ /\ UpdatedRules[i].revision > priceRules[i].revision
            /\ \E row \in SelectedRows : row.existing # <<>> /\ row.existing[1] = [id |-> i, rule |-> priceRules[i]]
  <2> TAKE i \in DOMAIN priceRules
  <2>1. CASE \E row \in SelectedRows : Touches(row, i)
    <3> PICK touch \in SelectedRows : Touches(touch, i)
      BY <2>1
    <3> HIDE DEF RowFor, Touches
    <3> QED
      BY <1>1
  <2>2. CASE ~\E row \in SelectedRows : Touches(row, i)
    BY <1>2, <2>2
  <2> QED
    BY <2>1, <2>2
<1> QED
  BY <1>5, <1>7, <1>8

LEMMA AppliedAreRules ==
    ASSUME PriceTypes, PreviewsStand, pricePreview # <<>>, RevisionsMatch
    PROVE  /\ AppliedRules \in Seq(RuleRecords)
           /\ \A i \in DOMAIN priceRules : i \in DOMAIN AppliedRules /\ AppliedRules[i] = UpdatedRules[i]
<1>1. UpdatedRules \in Seq(RuleRecords) /\ DOMAIN UpdatedRules = DOMAIN priceRules
  BY UpdatedAreRules
<1>2. CreatedRules \in Seq(RuleRecords)
  BY CreatedAreRules
<1>3. \A s, t \in Seq(RuleRecords) : /\ s \o t \in Seq(RuleRecords)
                                     /\ \A i \in DOMAIN s : i \in DOMAIN (s \o t) /\ (s \o t)[i] = s[i]
  OBVIOUS
<1> QED
  BY <1>1, <1>2, <1>3 DEF AppliedRules

-------------------------------------------------------------------------------
(* The steps. *)

LEMMA EditPriceInv ==
    ASSUME PriceInv, NEW rules \in Seq(RuleRecords), PriceEdit(rules),
           \A i \in DOMAIN priceRules : i \in DOMAIN rules /\ Advanced(priceRules[i], rules[i])
    PROVE  PriceInv'
<1> USE DEF PriceEdit
<1>1. PriceTypes'
  BY DEF PriceInv, PriceTypes
<1>2. PreviewsStand'
  BY RulesAdvance DEF PriceInv
<1>3. WritersInTime' /\ RecordsOutlivePreviews'
  BY DEF PriceInv, WritersInTime, RecordsOutlivePreviews
<1> QED
  BY <1>1, <1>2, <1>3 DEF PriceInv

LEMMA CreatePriceInv ==
    ASSUME PriceInv, NEW identity \in Identities, CreateBillingModelPrice(identity)
    PROVE  PriceInv'
<1> PICK enabled \in BOOLEAN : PriceEdit(Append(priceRules, RuleBy(identity, "manual", enabled, priceEdits + 1)))
  BY DEF CreateBillingModelPrice
<1> DEFINE r == RuleBy(identity, "manual", enabled, priceEdits + 1)
<1>1. r \in RuleRecords /\ priceRules \in Seq(RuleRecords)
  BY DEF PriceInv, PriceTypes, RuleBy, RuleRecords
<1> HIDE DEF r
<1>2. /\ Append(priceRules, r) \in Seq(RuleRecords)
      /\ \A i \in DOMAIN priceRules : i \in DOMAIN Append(priceRules, r) /\ Append(priceRules, r)[i] = priceRules[i]
  BY <1>1
<1> QED
  BY <1>2, EditPriceInv DEF Advanced, r

LEMMA ReplacePriceInv ==
    ASSUME PriceInv, NEW i \in DOMAIN priceRules, NEW r \in RuleRecords, Advanced(priceRules[i], r),
           PriceEdit([priceRules EXCEPT ![i] = r])
    PROVE  PriceInv'
<1>1. priceRules \in Seq(RuleRecords) /\ i \in 1 .. Len(priceRules)
  BY DEF PriceInv, PriceTypes
<1>2. /\ [priceRules EXCEPT ![i] = r] \in Seq(RuleRecords)
      /\ \A j \in DOMAIN priceRules : /\ j \in DOMAIN [priceRules EXCEPT ![i] = r]
                                      /\ Advanced(priceRules[j], [priceRules EXCEPT ![i] = r][j])
  BY <1>1, ExceptSeq DEF Advanced
<1> QED
  BY <1>2, EditPriceInv

LEMMA UpdatePriceInv ==
    ASSUME PriceInv, NEW i \in Alive(priceRules), UpdateBillingModelPrice(i) \/ DeleteBillingModelPrice(i)
    PROVE  PriceInv'
<1>1. i \in DOMAIN priceRules /\ priceRules[i] \in RuleRecords /\ priceEdits \in Nat
  BY DEF PriceInv, PriceTypes, Alive
<1>2. CASE UpdateBillingModelPrice(i)
  <2> PICK enabled \in BOOLEAN : PriceEdit([priceRules EXCEPT ![i] = Edited(@, enabled)])
    BY <1>2 DEF UpdateBillingModelPrice
  <2>1. Edited(priceRules[i], enabled) \in RuleRecords /\ Advanced(priceRules[i], Edited(priceRules[i], enabled))
    <3>1. priceEdits + 1 \in Nat
      BY <1>1
    <3>2. Edited(priceRules[i], enabled) = [priceRules[i] EXCEPT !.enabled = enabled, !.by = priceEdits + 1,
                                                             !.revision = priceRules[i].revision + 1]
      BY DEF Edited
    <3>3. priceRules[i].revision \in Nat
      BY <1>1 DEF RuleRecords
    <3>4. priceRules[i].revision + 1 \in Nat /\ priceRules[i].revision + 1 > priceRules[i].revision
      BY <3>3
    <3>5. ASSUME NEW r \in RuleRecords, NEW by \in Nat, NEW v \in Nat,
                 r = priceRules[i], by = priceEdits + 1, v = priceRules[i].revision + 1
          PROVE  Edited(priceRules[i], enabled) \in RuleRecords /\ Edited(priceRules[i], enabled).revision = v
      <4>1. Edited(priceRules[i], enabled) = [r EXCEPT !.enabled = enabled, !.by = by, !.revision = v]
        BY <3>2, <3>5
      <4> QED
          BY <4>1 DEF RuleRecords
    <3>6. Edited(priceRules[i], enabled) \in RuleRecords
          /\ Edited(priceRules[i], enabled).revision = priceRules[i].revision + 1
      BY <3>1, <3>2, <3>4, <3>5, <1>1
    <3> QED
      BY <3>4, <3>6 DEF Advanced
  <2>2. PriceEdit([priceRules EXCEPT ![i] = Edited(priceRules[i], enabled)])
    BY <1>1
  <2> QED
    BY <1>1, <2>1, <2>2, ReplacePriceInv
<1>3. CASE DeleteBillingModelPrice(i)
  <2> DEFINE r == [priceRules[i] EXCEPT !.deleted = TRUE]
  <2>1. r \in RuleRecords /\ Advanced(priceRules[i], r)
    BY <1>1, RuleDeleted DEF Advanced
  <2>2. PriceEdit([priceRules EXCEPT ![i] = r])
    BY <1>1, <1>3 DEF DeleteBillingModelPrice
  <2> HIDE DEF r
  <2> QED
    BY <1>1, <2>1, <2>2, ReplacePriceInv
<1> QED
  BY <1>2, <1>3

LEMMA PreviewPriceInv ==
    ASSUME PriceInv, NEW mode \in {"skip", "sync", "all"}, CreatePreview(mode)
    PROVE  PriceInv'
<1> DEFINE rows == {PreviewRow(t, mode) : t \in ImportTargets}
           preview == [rows |-> rows, expires |-> priceNow + PreviewTTL]
<1>1. pricePreview' = <<preview>> /\ pricePreview = <<>> /\ pricePreview'[1] = preview
      /\ UNCHANGED <<priceRules, priceOps, priceCall, priceNow, priceEdits, priceApplied>>
  BY DEF CreatePreview
<1>2. preview.rows = rows /\ preview.expires = priceNow + PreviewTTL
  OBVIOUS
<1>3. \A row \in rows : row \in PreviewRows /\ (row.existing # <<>> => SeenRuleStands(row.existing[1], priceRules))
  <2> SUFFICES ASSUME NEW t \in ImportTargets
               PROVE  /\ PreviewRow(t, mode) \in PreviewRows
                      /\ PreviewRow(t, mode).existing # <<>> => SeenRuleStands(PreviewRow(t, mode).existing[1], priceRules)
    OBVIOUS
  <2> DEFINE existing == {i \in Alive(priceRules) : priceRules[i].identity = t}
             i == CHOOSE i \in existing : TRUE
             row == PreviewRow(t, mode)
             act == IF Cardinality(existing) > 1 THEN "review" ELSE ImportAction(existing, mode)
             seen == [id |-> i, rule |-> priceRules[i]]
  <2>1. row = [identity |-> t, action |-> act, existing |-> IF Cardinality(existing) # 1 THEN <<>> ELSE <<seen>>]
    BY DEF PreviewRow
  <2>2. t \in Identities /\ act \in ImportActions
    <3>1. ImportAction(existing, mode) \in ImportActions
      <4> HIDE DEF existing
      <4> QED
        BY DEF ImportAction, ImportActions
    <3>2. "review" \in ImportActions
      BY DEF ImportActions
    <3> HIDE DEF existing
    <3> QED
      BY <3>1, <3>2, PriceAssumption
  <2>3. ASSUME Cardinality(existing) = 1
        PROVE  seen \in SeenRules /\ SeenRuleStands(seen, priceRules)
    <3>1. existing # {}
      <4> HIDE DEF existing
      <4> QED
        BY <2>3, FS_EmptySet
    <3>2. i \in existing
      BY <3>1
    <3>3. i \in DOMAIN priceRules /\ priceRules[i] \in RuleRecords /\ i \in Nat
      BY <3>2 DEF Alive, PriceInv, PriceTypes
    <3> HIDE DEF i
    <3> QED
      BY <3>3 DEF SeenRules, SeenRuleStands, RuleRecords
  <2> HIDE DEF act, seen, existing, row
  <2>4. CASE Cardinality(existing) # 1
    <3>1. row = [identity |-> t, action |-> act, existing |-> <<>>]
      BY <2>1, <2>4
    <3> QED
      BY <3>1, <2>2 DEF PreviewRows, row
  <2>5. CASE Cardinality(existing) = 1
    <3>1. row = [identity |-> t, action |-> act, existing |-> <<seen>>]
      BY <2>1, <2>5
    <3>2. <<seen>> \in Seq(SeenRules) /\ <<seen>>[1] = seen
      BY <2>3, <2>5
    <3> QED
      BY <3>1, <3>2, <2>2, <2>3, <2>5 DEF PreviewRows, row
  <2> QED
    BY <2>4, <2>5
<1>4. IsFiniteSet(rows)
  <2> DEFINE f == [t \in ImportTargets |-> PreviewRow(t, mode)]
  <2>1. f \in Surjection(ImportTargets, rows)
    BY DEF Surjection
  <2>2. IsFiniteSet(ImportTargets)
    BY PriceAssumption, FS_Subset
  <2> HIDE DEF f, rows
  <2> QED
    BY <2>1, <2>2, FS_Surjection
<1>5. priceNow + PreviewTTL \in Nat /\ priceNow \in Nat
  BY PriceAssumption DEF PriceInv, PriceTypes
<1> HIDE DEF rows, preview
<1>6. PriceTypes'
  BY <1>1, <1>2, <1>3, <1>4, <1>5 DEF PriceInv, PriceTypes
<1>7. PreviewsStand'
  BY <1>1, <1>2, <1>3 DEF PreviewsStand
<1>8. WritersInTime' /\ RecordsOutlivePreviews'
  BY <1>1, <1>2, <1>5 DEF PriceInv, PriceTypes, WritersInTime, RecordsOutlivePreviews
<1> QED
  BY <1>6, <1>7, <1>8 DEF PriceInv

LEMMA BeginPriceInv ==
    ASSUME PriceInv, NEW c \in Callers, NEW confirm \in BOOLEAN, BeginApply(c, confirm)
    PROVE  PriceInv'
<1> USE DEF BeginApply
<1>1. PriceTypes'
  BY DEF PriceInv, PriceTypes
<1>2. PreviewsStand' /\ RecordsOutlivePreviews'
  BY DEF PriceInv, PreviewsStand, RecordsOutlivePreviews
<1>3. WritersInTime'
  BY DEF PriceInv, PriceTypes, WritersInTime
<1> QED
  BY <1>1, <1>2, <1>3 DEF PriceInv

\* While somebody writes, nothing has been applied unless its record is there.
LEMMA WritersAreFirst ==
    ASSUME PriceInv, NEW c \in Callers, priceCall[c] = "writing", KeyFree
    PROVE  priceApplied = 0 /\ pricePreview # <<>> /\ priceNow <= pricePreview[1].expires
  BY DEF PriceInv, PriceTypes, WritersInTime, RecordsOutlivePreviews, KeyFree

LEMMA ApplyPriceInv ==
    ASSUME PriceInv, NEW c \in Callers, ApplyImport(c)
    PROVE  PriceInv'
<1>1. priceApplied = 0 /\ pricePreview # <<>> /\ priceNow <= pricePreview[1].expires /\ RevisionsMatch
  BY WritersAreFirst DEF ApplyImport
<1>2. /\ AppliedRules \in Seq(RuleRecords)
      /\ \A i \in DOMAIN priceRules : i \in DOMAIN AppliedRules /\ AppliedRules[i] = UpdatedRules[i]
  BY <1>1, AppliedAreRules DEF PriceInv
<1>3. \A i \in DOMAIN priceRules : Advanced(priceRules[i], AppliedRules[i])
  BY <1>1, <1>2, UpdatedAreRules DEF PriceInv, Advanced
<1>4. /\ priceRules' = AppliedRules /\ priceOps' = <<priceNow>> /\ priceApplied' = 1
      /\ priceCall' = [priceCall EXCEPT ![c] = "none"] /\ UNCHANGED <<pricePreview, priceNow, priceEdits>>
  BY <1>1 DEF ApplyImport
<1>5. PriceTypes'
  BY <1>2, <1>4 DEF PriceInv, PriceTypes
<1>6. PreviewsStand'
  BY <1>2, <1>3, <1>4, RulesAdvance DEF PriceInv
<1>7. WritersInTime'
  BY <1>4 DEF PriceInv, PriceTypes, WritersInTime
<1>8. RecordsOutlivePreviews'
  BY <1>1, <1>4 DEF PriceInv, RecordsOutlivePreviews
<1> QED
  BY <1>5, <1>6, <1>7, <1>8 DEF PriceInv

LEMMA OtherPriceInv ==
    ASSUME PriceInv, CleanupImports \/ PriceTick \/ (\E c \in Callers : FailImport(c)) \/ UNCHANGED priceVars
    PROVE  PriceInv'
<1>1. CASE CleanupImports
  <2>1. /\ pricePreview # <<>> /\ pricePreview[1].expires <= priceOps[1] + PreviewTTL
        /\ priceOps[1] + OperationRetention < priceNow /\ priceOps[1] \in Nat
        /\ pricePreview[1].expires \in Nat /\ priceNow \in Nat
    BY <1>1 DEF PriceInv, PriceTypes, RecordsOutlivePreviews, CleanupImports
  <2>2. pricePreview[1].expires < priceNow
    BY <2>1, PriceAssumption
  <2> QED
    BY <1>1, <2>1, <2>2 DEF CleanupImports, PriceInv, PriceTypes, PreviewsStand, WritersInTime, RecordsOutlivePreviews
<1>2. CASE PriceTick
  <2>1. WritersInTime'
    BY <1>2 DEF PriceTick, WritersInTime
  <2>2. PriceTypes' /\ PreviewsStand'
    BY <1>2 DEF PriceTick, PriceInv, PriceTypes, PreviewsStand
  <2>3. RecordsOutlivePreviews'
    BY <1>2, PriceAssumption DEF PriceTick, PriceInv, PriceTypes, RecordsOutlivePreviews
  <2> QED
    BY <2>1, <2>2, <2>3 DEF PriceInv
<1>3. CASE \E c \in Callers : FailImport(c)
  <2> PICK c \in Callers : FailImport(c)
    BY <1>3
  <2> QED
    BY DEF FailImport, PriceInv, PriceTypes, PreviewsStand, WritersInTime, RecordsOutlivePreviews
<1>4. CASE UNCHANGED priceVars
  BY <1>4 DEF priceVars, PriceInv, PriceTypes, PreviewsStand, WritersInTime, RecordsOutlivePreviews
<1> QED
  BY <1>1, <1>2, <1>3, <1>4

LEMMA NextPriceInv == PriceInv /\ [PriceNext]_priceVars => PriceInv'
<1> SUFFICES ASSUME PriceInv, [PriceNext]_priceVars
             PROVE  PriceInv'
  OBVIOUS
<1>1. ASSUME NEW identity \in Identities, CreateBillingModelPrice(identity) PROVE PriceInv'
  BY <1>1, CreatePriceInv
<1>2. ASSUME NEW i \in Alive(priceRules), UpdateBillingModelPrice(i) \/ DeleteBillingModelPrice(i) PROVE PriceInv'
  BY <1>2, UpdatePriceInv
<1>3. ASSUME NEW mode \in {"skip", "sync", "all"}, CreatePreview(mode) PROVE PriceInv'
  BY <1>3, PreviewPriceInv
<1>4. ASSUME NEW c \in Callers, NEW confirm \in BOOLEAN, BeginApply(c, confirm) PROVE PriceInv'
  BY <1>4, BeginPriceInv
<1>5. ASSUME NEW c \in Callers, ApplyImport(c) PROVE PriceInv'
  BY <1>5, ApplyPriceInv
<1>6. ASSUME CleanupImports \/ PriceTick \/ (\E c \in Callers : FailImport(c)) \/ UNCHANGED priceVars PROVE PriceInv'
  BY <1>6, OtherPriceInv
<1> QED
  BY <1>1, <1>2, <1>3, <1>4, <1>5, <1>6 DEF PriceNext

\* Only an apply counts, and only the first one gets as far as writing.
LEMMA OnlyApplyCounts ==
    ASSUME [PriceNext]_priceVars, priceApplied' # priceApplied
    PROVE  \E c \in Callers : ApplyImport(c)
  BY DEF PriceNext, CreateBillingModelPrice, UpdateBillingModelPrice, DeleteBillingModelPrice, PriceEdit,
         CreatePreview, BeginApply, FailImport, CleanupImports, PriceTick, priceVars

\* An import is carried out once for its idempotency key, however many callers repeat it and
\* whenever records are cleaned up, and overwrites a rule only as its preview showed it
\* (ApplyBillingModelPriceImport).
THEOREM ImportsStayExact == PriceSpec => ImportsAreExact
<1>1. PriceInv /\ [PriceNext]_priceVars =>
         (priceApplied' # priceApplied => priceApplied = 0 /\ priceApplied' = 1)
  <2> SUFFICES ASSUME PriceInv, [PriceNext]_priceVars, priceApplied' # priceApplied
               PROVE  priceApplied = 0 /\ priceApplied' = 1
    OBVIOUS
  <2> PICK c \in Callers : ApplyImport(c)
    BY OnlyApplyCounts
  <2> QED
    BY WritersAreFirst DEF ApplyImport
<1>2. PriceInv /\ [PriceNext]_priceVars =>
         (priceApplied' # priceApplied =>
            \A i \in DOMAIN priceRules : priceRules'[i] # priceRules[i] =>
                \E row \in SelectedRows : row.existing # <<>> /\ row.existing[1] = [id |-> i, rule |-> priceRules[i]])
  <2> SUFFICES ASSUME PriceInv, [PriceNext]_priceVars, priceApplied' # priceApplied,
                      NEW i \in DOMAIN priceRules, priceRules'[i] # priceRules[i]
               PROVE  \E row \in SelectedRows : row.existing # <<>> /\ row.existing[1] = [id |-> i, rule |-> priceRules[i]]
    OBVIOUS
  <2> PICK c \in Callers : ApplyImport(c)
    BY OnlyApplyCounts
  <2>1. pricePreview # <<>> /\ RevisionsMatch /\ priceRules' = AppliedRules
    BY WritersAreFirst DEF ApplyImport
  <2>2. priceRules'[i] = UpdatedRules[i]
    BY <2>1, AppliedAreRules DEF PriceInv
  <2> QED
    BY <2>1, <2>2, UpdatedAreRules DEF PriceInv
<1>3. PriceSpec => []PriceInv
  BY PriceInitInv, NextPriceInv, PTL DEF PriceSpec
<1>4. PriceSpec => ImportAppliedOnce
  BY <1>1, <1>3, PTL DEF PriceSpec, ImportAppliedOnce
<1>5. PriceSpec => NoEditOverwritten
  BY <1>2, <1>3, PTL DEF PriceSpec, NoEditOverwritten
<1> QED
  BY <1>4, <1>5 DEF ImportsAreExact

(***************************************************************************)
(* The choice of a price rule.  Each loop of the search returns at its     *)
(* first hit; the lemmas say that there is a first one, and what it means  *)
(* for the rule.                                                           *)
(***************************************************************************)

\* A rule the search may select for one model at one level.
Selectable(i, provider, model, pattern, tier, tokens) ==
    LET r == priceRules[i].identity
    IN /\ i \in EnabledRules /\ r.provider = provider /\ r.band <= tokens /\ r.tier \in {tier, "any"}
       /\ ModelMatches(r.model, model, pattern)

LEMMA EnabledRulesAre ==
    ASSUME PriceTypes
    PROVE  \A i \in EnabledRules : i \in DOMAIN priceRules /\ i \in Nat /\ i # 0 /\ Band(i) \in Nat
<1> SUFFICES ASSUME NEW i \in EnabledRules
             PROVE  i \in DOMAIN priceRules /\ i \in Nat /\ i # 0 /\ Band(i) \in Nat
  OBVIOUS
<1>1. priceRules \in Seq(RuleRecords) /\ i \in DOMAIN priceRules
  BY DEF PriceTypes, EnabledRules, Alive
<1>2. DOMAIN priceRules = 1 .. Len(priceRules) /\ Len(priceRules) \in Nat /\ priceRules[i] \in RuleRecords
  BY <1>1
<1>3. priceRules[i].identity \in Identities
  BY <1>2 DEF RuleRecords
<1> QED
  BY <1>1, <1>2, <1>3, PriceAssumption DEF Band

\* The query returns some rule first.
LEMMA FirstInQuery ==
    ASSUME PriceTypes, NEW tokens \in Nat, NEW S \in SUBSET EnabledRules, S # {},
           \A i \in S : Band(i) <= tokens
    PROVE  \E i \in S : \A j \in S : QueryOrder(i, j)
<1> DEFINE Below(i) == tokens - Band(i)
           Belows == {Below(i) : i \in S}
<1>1. \A i \in S : i \in Nat /\ Band(i) \in Nat /\ Below(i) \in Nat
  BY EnabledRulesAre
<1>2. PICK least \in Belows : \A d \in Belows : least <= d
  <2>1. Belows \in SUBSET Nat /\ Belows # {}
    BY <1>1
  <2> HIDE DEF Belows
  <2> QED
    BY <2>1, LeastElement
<1> DEFINE Widest == {i \in S : Below(i) = least}
<1>3. PICK i \in Widest : \A j \in Widest : i <= j
  <2>1. Widest \in SUBSET Nat /\ Widest # {}
    BY <1>1, <1>2
  <2> HIDE DEF Widest
  <2> QED
    BY <2>1, LeastElement
<1>4. ASSUME NEW j \in S PROVE QueryOrder(i, j)
  <2>1. Below(i) <= Below(j)
    BY <1>2, <1>3
  <2>2. Band(i) >= Band(j)
    BY <1>1, <1>3, <2>1
  <2>3. CASE Band(i) = Band(j)
    <3>1. i <= j
      BY <1>3, <2>3
    <3> QED
      BY <2>3, <3>1 DEF QueryOrder
  <2>4. CASE Band(i) # Band(j)
    BY <1>1, <1>3, <2>2, <2>4 DEF QueryOrder
  <2> QED
    BY <2>3, <2>4
<1> QED
  BY <1>3, <1>4

\* Of several keys, one is longest.
LEMMA LongestKey ==
    ASSUME NEW S, S # {}
    PROVE  \E k \in S : \A other \in S : PatternLength(other) <= PatternLength(k)
<1> DEFINE Rests == {3 - PatternLength(k) : k \in S}
<1>1. \A k : PatternLength(k) \in {0, 1, 3}
  BY DEF PatternLength
<1>2. Rests \in SUBSET Nat /\ Rests # {}
  BY <1>1
<1>3. PICK least \in Rests : \A d \in Rests : least <= d
  <2> HIDE DEF Rests
  <2> QED
    BY <1>2, LeastElement
<1>4. PICK k \in S : least = 3 - PatternLength(k)
  BY <1>3
<1>5. \A other \in S : 3 - PatternLength(k) <= 3 - PatternLength(other)
  BY <1>3, <1>4
<1> QED
  BY <1>1, <1>5

\* A model matches one key of each length.
LEMMA OneKeyPerLength ==
    ASSUME NEW model, NEW pattern, NEW a, NEW b,
           ModelMatches(a, model, pattern), ModelMatches(b, model, pattern), PatternLength(a) = PatternLength(b)
    PROVE  a = b
<1>1. CASE pattern
  BY <1>1 DEF ModelMatches, PatternLength
<1>2. CASE ~pattern
  BY <1>2 DEF ModelMatches
<1> QED
  BY <1>1, <1>2

\* billingSelectPriceRule selects a rule whenever one may be selected: one with the longest key,
\* there with the tier asked for, there with the greatest band.
LEMMA SelectedRule ==
    ASSUME PriceTypes, NEW provider, NEW model, NEW pattern, NEW tier, NEW tokens \in Nat
    PROVE  LET found == SelectPriceRule(provider, model, pattern, tier, tokens)
               May(i) == Selectable(i, provider, model, pattern, tier, tokens)
               Key(i) == priceRules[i].identity.model
               Tier(i) == priceRules[i].identity.tier
           IN /\ found # NoRule <=> \E i : May(i)
              /\ found # NoRule =>
                    /\ May(found)
                    /\ \A i : May(i) =>
                          /\ PatternLength(Key(i)) <= PatternLength(Key(found))
                          /\ PatternLength(Key(i)) = PatternLength(Key(found)) =>
                                /\ ~(Tier(i) # "any" /\ Tier(found) = "any")
                                /\ Tier(i) = Tier(found) => Band(i) <= Band(found)
<1> DEFINE Key(i) == priceRules[i].identity.model
           Tier(i) == priceRules[i].identity.tier
           May(i) == Selectable(i, provider, model, pattern, tier, tokens)
           matching == {i \in EnabledRules : /\ priceRules[i].identity.provider = provider
                                             /\ Band(i) <= tokens
                                             /\ ModelMatches(priceRules[i].identity.model, model, pattern)}
           OfTier(key, t) == {i \in matching : priceRules[i].identity.model = key /\ priceRules[i].identity.tier = t}
           keys == {priceRules[i].identity.model : i \in {r \in matching : priceRules[r].identity.tier \in {tier, "any"}}}
           key == CHOOSE k \in keys : \A other \in keys : PatternLength(other) <= PatternLength(k)
           chosen == IF OfTier(key, tier) # {} THEN OfTier(key, tier) ELSE OfTier(key, "any")
           found == SelectPriceRule(provider, model, pattern, tier, tokens)
<1>1. \A i : May(i) <=> i \in matching /\ Tier(i) \in {tier, "any"}
  BY DEF Selectable, Band
<1>2. found = IF keys = {} THEN NoRule ELSE CHOOSE i \in chosen : \A j \in chosen : QueryOrder(i, j)
  BY DEF SelectPriceRule
<1>3. \A i : May(i) => Key(i) \in keys
  BY <1>1
<1>4. \A k \in keys : \E i : May(i) /\ Key(i) = k
  BY <1>1
<1>5. CASE keys = {}
  <2>1. found = NoRule
    BY <1>2, <1>5
  <2>2. \A i : ~May(i)
    BY <1>3, <1>5
  <2> HIDE DEF found, May
  <2> QED
    BY <2>1, <2>2 DEF found, May
<1>6. CASE keys # {}
  <2>1. key \in keys /\ \A other \in keys : PatternLength(other) <= PatternLength(key)
    <3> HIDE DEF keys
    <3>1. \E k \in keys : \A other \in keys : PatternLength(other) <= PatternLength(k)
      BY <1>6, LongestKey
    <3> QED
      BY <3>1
  <2> HIDE DEF key
  <2>2. chosen # {} /\ chosen \subseteq matching /\ \A i \in chosen : Key(i) = key /\ Tier(i) \in {tier, "any"}
    BY <1>1, <1>4, <2>1
  <2>3. found \in chosen /\ \A j \in chosen : QueryOrder(found, j)
    <3>1. \E i \in chosen : \A j \in chosen : QueryOrder(i, j)
      <4>1. chosen \subseteq EnabledRules /\ \A i \in chosen : Band(i) <= tokens
        BY <2>2
      <4> HIDE DEF chosen
      <4> QED
        BY <2>2, <4>1, FirstInQuery
    <3>2. found = CHOOSE i \in chosen : \A j \in chosen : QueryOrder(i, j)
      BY <1>2, <1>6 DEF key
    <3> HIDE DEF chosen, found
    <3> QED
      BY <3>1, <3>2
  <2>4. May(found) /\ Key(found) = key
    <3> HIDE DEF found
    <3> QED
      BY <1>1, <2>2, <2>3
  <2>5. found # NoRule
    <3> HIDE DEF found, matching
    <3>1. found \in EnabledRules
      BY <2>4 DEF Selectable
    <3> QED
      BY <3>1, EnabledRulesAre DEF NoRule
  <2>6. ASSUME NEW i, May(i)
        PROVE  /\ PatternLength(Key(i)) <= PatternLength(Key(found))
               /\ PatternLength(Key(i)) = PatternLength(Key(found)) =>
                     /\ ~(Tier(i) # "any" /\ Tier(found) = "any")
                     /\ Tier(i) = Tier(found) => Band(i) <= Band(found)
    <3>1. PatternLength(Key(i)) <= PatternLength(Key(found))
      <4> HIDE DEF found
      <4> QED
        BY <1>3, <2>1, <2>4, <2>6
    <3>2. ASSUME PatternLength(Key(i)) = PatternLength(Key(found))
          PROVE  Key(i) = key
      <4> HIDE DEF found
      <4>1. ModelMatches(Key(i), model, pattern) /\ ModelMatches(Key(found), model, pattern)
        BY <2>4, <2>6 DEF Selectable
      <4> QED
        BY <2>4, <3>2, <4>1, OneKeyPerLength
    <3>3. ASSUME Key(i) = key, Tier(i) # "any", Tier(found) = "any" PROVE FALSE
      <4>1. Tier(i) = tier /\ i \in OfTier(key, tier)
        BY <1>1, <2>6, <3>3
      <4>2. found \in OfTier(key, tier)
        <5>1. chosen = OfTier(key, tier)
          BY <4>1
        <5> HIDE DEF found
        <5> QED
          BY <2>3, <5>1
      <4> HIDE DEF found
      <4> QED
        BY <3>3, <4>1, <4>2
    <3>4. ASSUME Key(i) = key, Tier(i) = Tier(found) PROVE Band(i) <= Band(found)
      <4>1. i \in chosen
        <5> HIDE DEF found
        <5>1. i \in matching
          BY <1>1, <2>6
        <5> QED
          BY <2>3, <3>4, <5>1
      <4> HIDE DEF found
      <4>2. QueryOrder(found, i)
        BY <2>3, <4>1
      <4>3. Band(i) \in Nat /\ Band(found) \in Nat
        BY <2>4, <2>6, EnabledRulesAre DEF Selectable
      <4> QED
        BY <4>2, <4>3 DEF QueryOrder
    <3> HIDE DEF found, May
    <3> QED
      BY <3>1, <3>2, <3>3, <3>4
  <2>7. /\ found # NoRule /\ May(found)
        /\ \A i : May(i) => /\ PatternLength(Key(i)) <= PatternLength(Key(found))
                            /\ PatternLength(Key(i)) = PatternLength(Key(found)) =>
                                  /\ ~(Tier(i) # "any" /\ Tier(found) = "any")
                                  /\ Tier(i) = Tier(found) => Band(i) <= Band(found)
    BY <2>4, <2>5, <2>6
  <2> HIDE DEF found, May
  <2>8. \E i : May(i)
    BY <2>7
  <2> QED
    BY <2>7, <2>8 DEF found, May
<1> QED
  BY <1>5, <1>6

LEMMA LevelsAre ==
    /\ DOMAIN MatchLevels = 1 .. 4
    /\ MatchLevels[1].any = FALSE /\ MatchLevels[1].pattern = FALSE
    /\ MatchLevels[2].any = FALSE /\ MatchLevels[2].pattern = TRUE
    /\ MatchLevels[3].any = TRUE /\ MatchLevels[3].pattern = FALSE
    /\ MatchLevels[4].any = TRUE /\ MatchLevels[4].pattern = TRUE
  BY DEF MatchLevels

\* A rule is looked at on its own level only.
LEMMA RuleOnLevel ==
    ASSUME NEW i, NEW provider, provider # "any", NEW model, NEW l \in 1 .. 4, NEW tier, NEW tokens
    PROVE  Selectable(i, IF MatchLevels[l].any THEN "any" ELSE provider, model, MatchLevels[l].pattern, tier, tokens)
           <=> /\ i \in EnabledRules /\ priceRules[i].identity.provider \in {provider, "any"}
               /\ priceRules[i].identity.band <= tokens /\ priceRules[i].identity.tier \in {tier, "any"}
               /\ ModelMatches(priceRules[i].identity.model, model, IsPattern(priceRules[i].identity.model))
               /\ l = Level(i) + 1
<1> DEFINE r == priceRules[i].identity
           Common == /\ i \in EnabledRules /\ r.band <= tokens /\ r.tier \in {tier, "any"}
                     /\ ModelMatches(r.model, model, IsPattern(r.model))
           May(p, pattern) == Selectable(i, p, model, pattern, tier, tokens)
<1>1. ModelMatches(r.model, model, FALSE) => ~IsPattern(r.model)
  BY DEF ModelMatches
<1>2. ModelMatches(r.model, model, TRUE) => IsPattern(r.model)
  BY DEF ModelMatches, IsPattern, PatternLength
<1>3. /\ IsPattern(r.model) => (ModelMatches(r.model, model, IsPattern(r.model)) <=> ModelMatches(r.model, model, TRUE))
      /\ ~IsPattern(r.model) => (ModelMatches(r.model, model, IsPattern(r.model)) <=> ModelMatches(r.model, model, FALSE))
  BY DEF ModelMatches
<1>4. \A p : May(p, FALSE) <=> Common /\ r.provider = p /\ ~IsPattern(r.model)
  BY <1>1, <1>3 DEF Selectable
<1>5. \A p : May(p, TRUE) <=> Common /\ r.provider = p /\ IsPattern(r.model)
  BY <1>2, <1>3 DEF Selectable
<1>6. /\ 1 = Level(i) + 1 <=> r.provider # "any" /\ ~IsPattern(r.model)
      /\ 2 = Level(i) + 1 <=> r.provider # "any" /\ IsPattern(r.model)
      /\ 3 = Level(i) + 1 <=> r.provider = "any" /\ ~IsPattern(r.model)
      /\ 4 = Level(i) + 1 <=> r.provider = "any" /\ IsPattern(r.model)
  <2>1. CASE IsPattern(r.model)
    BY <2>1 DEF Level
  <2>2. CASE ~IsPattern(r.model)
    BY <2>2 DEF Level
  <2> QED
    BY <2>1, <2>2
<1> DEFINE Here == May(IF MatchLevels[l].any THEN "any" ELSE provider, MatchLevels[l].pattern)
           There == Common /\ r.provider \in {provider, "any"} /\ l = Level(i) + 1
<1>7. Here <=> There
  <2>1. CASE l = 1
    <3>1. Here <=> May(provider, FALSE)
      BY <2>1, LevelsAre
    <3> HIDE DEF May, Common, Here
    <3> QED
      BY <1>4, <1>6, <2>1, <3>1, Zenon
  <2>2. CASE l = 2
    <3>1. Here <=> May(provider, TRUE)
      BY <2>2, LevelsAre
    <3> HIDE DEF May, Common, Here
    <3> QED
      BY <1>5, <1>6, <2>2, <3>1, Zenon
  <2>3. CASE l = 3
    <3>1. Here <=> May("any", FALSE)
      BY <2>3, LevelsAre
    <3> HIDE DEF May, Common, Here
    <3> QED
      BY <1>4, <1>6, <2>3, <3>1, Zenon
  <2>4. CASE l = 4
    <3>1. Here <=> May("any", TRUE)
      BY <2>4, LevelsAre
    <3> HIDE DEF May, Common, Here
    <3> QED
      BY <1>5, <1>6, <2>4, <3>1, Zenon
  <2> QED
    BY <2>1, <2>2, <2>3, <2>4
<1> QED
  BY <1>7

\* The candidate a rule is found by is the first it matches.
LEMMA PositionIs ==
    ASSUME NEW i, NEW C, NEW candidates \in Seq(C), NEW k \in DOMAIN candidates,
           ModelMatches(priceRules[i].identity.model, candidates[k], IsPattern(priceRules[i].identity.model))
    PROVE  /\ Position(i, candidates) \in DOMAIN candidates /\ Position(i, candidates) <= k
           /\ ModelMatches(priceRules[i].identity.model, candidates[Position(i, candidates)],
                           IsPattern(priceRules[i].identity.model))
<1> DEFINE S == {n \in DOMAIN candidates :
                    ModelMatches(priceRules[i].identity.model, candidates[n], IsPattern(priceRules[i].identity.model))}
<1>1. S \in SUBSET Nat /\ k \in S
  OBVIOUS
<1>2. Position(i, candidates) = CHOOSE n \in S : \A m \in S : n <= m
  BY DEF Position, Min
<1>3. \E n \in S : \A m \in S : n <= m
  <2> HIDE DEF S
  <2> QED
    BY <1>1, LeastElement
<1>4. Position(i, candidates) \in S /\ \A m \in S : Position(i, candidates) <= m
  <2> HIDE DEF S
  <2> QED
    BY <1>2, <1>3
<1> QED
  BY <1>1, <1>4

\* Of several hits, the loops return at one.
LEMMA FirstHit ==
    ASSUME NEW n \in Nat, NEW S \in SUBSET ((1 .. 4) \X (1 .. n)), S # {}
    PROVE  \E t \in S : \A u \in S : t[1] < u[1] \/ (t[1] = u[1] /\ t[2] <= u[2])
<1> DEFINE Levels == {t[1] : t \in S}
<1>1. PICK l \in Levels : \A m \in Levels : l <= m
  <2>1. Levels \in SUBSET Nat /\ Levels # {}
    OBVIOUS
  <2> HIDE DEF Levels
  <2> QED
    BY <2>1, LeastElement
<1> DEFINE There == {t \in S : t[1] = l}
           Positions == {t[2] : t \in There}
<1>2. PICK k \in Positions : \A m \in Positions : k <= m
  <2>1. Positions \in SUBSET Nat /\ Positions # {}
    BY <1>1
  <2> HIDE DEF Positions
  <2> QED
    BY <2>1, LeastElement
<1>3. PICK t \in There : t[2] = k
  BY <1>2
<1>4. ASSUME NEW u \in S PROVE t[1] < u[1] \/ (t[1] = u[1] /\ t[2] <= u[2])
  <2>1. t[1] = l /\ l <= u[1] /\ l \in 1 .. 4 /\ u[1] \in 1 .. 4
    BY <1>1, <1>3
  <2>2. CASE u[1] = l
    BY <1>2, <1>3, <2>1, <2>2
  <2>3. CASE u[1] # l
    BY <2>1, <2>3
  <2> QED
    BY <2>2, <2>3
<1> QED
  BY <1>3, <1>4

\* What billingFindPrice finds is the most specific of the rules that fit, whatever the rules, the
\* candidates, the tier and the size of the context.
LEMMA FoundWins ==
    ASSUME PriceTypes, NEW provider, provider # "any", NEW C, NEW candidates \in Seq(C), NEW tier, NEW tokens \in Nat
    PROVE  WinsByRank(FindPrice(provider, candidates, tier, tokens), provider, candidates, tier, tokens)
<1> DEFINE Model(i) == priceRules[i].identity.model
           Fit(i) == Fits(i, provider, candidates, tier, tokens)
           Try(l, k) == Tried(l, k, provider, candidates, tier, tokens)
           May(i, l, k) == Selectable(i, IF MatchLevels[l].any THEN "any" ELSE provider, candidates[k],
                                      MatchLevels[l].pattern, tier, tokens)
           hits == Hits(provider, candidates, tier, tokens)
           first == CHOOSE t \in hits : \A u \in hits : t[1] < u[1] \/ (t[1] = u[1] /\ t[2] <= u[2])
           found == FindPrice(provider, candidates, tier, tokens)
<1>1. DOMAIN candidates = 1 .. Len(candidates) /\ Len(candidates) \in Nat
  OBVIOUS
<1>2. \A i, l, k : l \in 1 .. 4 =>
         (May(i, l, k) <=> /\ i \in EnabledRules /\ priceRules[i].identity.provider \in {provider, "any"}
                           /\ priceRules[i].identity.band <= tokens /\ priceRules[i].identity.tier \in {tier, "any"}
                           /\ ModelMatches(Model(i), candidates[k], IsPattern(Model(i)))
                           /\ l = Level(i) + 1)
  BY RuleOnLevel
<1>3. \A i : Level(i) + 1 \in 1 .. 4
  BY DEF Level
<1>4. \A i, l, k : l \in 1 .. 4 /\ k \in DOMAIN candidates /\ May(i, l, k) => Fit(i) /\ l = Level(i) + 1
  BY <1>2 DEF Fits
<1>5. \A i : Fit(i) => /\ Position(i, candidates) \in DOMAIN candidates
                       /\ May(i, Level(i) + 1, Position(i, candidates))
  <2> SUFFICES ASSUME NEW i, Fit(i)
               PROVE  /\ Position(i, candidates) \in DOMAIN candidates
                      /\ May(i, Level(i) + 1, Position(i, candidates))
    OBVIOUS
  <2>1. PICK k \in DOMAIN candidates : ModelMatches(Model(i), candidates[k], IsPattern(Model(i)))
    BY DEF Fits
  <2>2. /\ Position(i, candidates) \in DOMAIN candidates
        /\ ModelMatches(Model(i), candidates[Position(i, candidates)], IsPattern(Model(i)))
    BY <2>1, PositionIs
  <2>3. /\ i \in EnabledRules /\ priceRules[i].identity.provider \in {provider, "any"}
        /\ priceRules[i].identity.band <= tokens /\ priceRules[i].identity.tier \in {tier, "any"}
    BY DEF Fits
  <2> HIDE DEF May
  <2> QED
    BY <1>2, <1>3, <2>2, <2>3
<1>6. ASSUME NEW l \in 1 .. 4, NEW k \in DOMAIN candidates
      PROVE  /\ Try(l, k) # NoRule <=> \E i : May(i, l, k)
             /\ Try(l, k) # NoRule =>
                   /\ May(Try(l, k), l, k)
                   /\ \A i : May(i, l, k) =>
                         /\ PatternLength(Model(i)) <= PatternLength(Model(Try(l, k)))
                         /\ PatternLength(Model(i)) = PatternLength(Model(Try(l, k))) =>
                               /\ ~(priceRules[i].identity.tier # "any" /\ priceRules[Try(l, k)].identity.tier = "any")
                               /\ priceRules[i].identity.tier = priceRules[Try(l, k)].identity.tier =>
                                     Band(i) <= Band(Try(l, k))
  BY SelectedRule DEF Tried
<1>7. hits = {t \in (1 .. 4) \X (DOMAIN candidates) : Try(t[1], t[2]) # NoRule}
  BY LevelsAre DEF Hits
<1>8. \A i : Fit(i) => <<Level(i) + 1, Position(i, candidates)>> \in hits
  <2> SUFFICES ASSUME NEW i, Fit(i)
               PROVE  <<Level(i) + 1, Position(i, candidates)>> \in hits
    OBVIOUS
  <2> HIDE DEF Fit, May, Try, hits
  <2>1. Position(i, candidates) \in DOMAIN candidates /\ May(i, Level(i) + 1, Position(i, candidates))
    BY <1>5
  <2>2. Try(Level(i) + 1, Position(i, candidates)) # NoRule
    BY <1>3, <1>6, <2>1
  <2> QED
    BY <1>3, <1>7, <2>1, <2>2
<1>9. found = IF hits = {} THEN NoRule ELSE Try(first[1], first[2])
  <2>1. ASSUME EnabledRules = {} PROVE hits = {}
    <3> SUFFICES ASSUME NEW t \in hits
                 PROVE  FALSE
      OBVIOUS
    <3>1. t[1] \in 1 .. 4 /\ t[2] \in DOMAIN candidates /\ Try(t[1], t[2]) # NoRule
      BY <1>7
    <3> HIDE DEF May, Try, hits
    <3>2. PICK i : May(i, t[1], t[2])
      BY <1>6, <3>1
    <3> QED
      BY <1>2, <2>1, <3>1, <3>2
  <2>2. found = IF EnabledRules = {} \/ hits = {} THEN NoRule ELSE Try(first[1], first[2])
    BY DEF FindPrice
  <2> HIDE DEF May, Try, hits, found, first
  <2> QED
    BY <2>1, <2>2
<1> HIDE DEF Fit, May, Try, hits, found
<1>10. CASE hits = {}
  <2>1. found = NoRule /\ \A i : ~Fit(i)
    BY <1>8, <1>9, <1>10
  <2> QED
    BY <2>1 DEF WinsByRank, found, Fit
<1>11. CASE hits # {}
  <2>1. first \in hits /\ \A u \in hits : first[1] < u[1] \/ (first[1] = u[1] /\ first[2] <= u[2])
    <3>1. hits \in SUBSET ((1 .. 4) \X (1 .. Len(candidates)))
      BY <1>1, <1>7
    <3>2. \E t \in hits : \A u \in hits : t[1] < u[1] \/ (t[1] = u[1] /\ t[2] <= u[2])
      BY <1>1, <1>11, <3>1, FirstHit
    <3> QED
      BY <3>2
  <2> DEFINE l == first[1]
             k == first[2]
  <2>2. l \in 1 .. 4 /\ k \in DOMAIN candidates /\ Try(l, k) # NoRule /\ found = Try(l, k)
    BY <1>7, <1>9, <1>11, <2>1
  <2> HIDE DEF l, k
  <2>3. May(found, l, k) /\ Fit(found) /\ l = Level(found) + 1
    BY <1>4, <1>6, <2>2
  <2>4. Position(found, candidates) = k
    <3>1. ModelMatches(Model(found), candidates[k], IsPattern(Model(found)))
      BY <1>2, <2>2, <2>3
    <3>2. Position(found, candidates) <= k /\ Position(found, candidates) \in DOMAIN candidates
      BY <2>2, <3>1, PositionIs
    <3>3. <<l, Position(found, candidates)>> \in hits
      BY <1>8, <2>3
    <3>4. l < l \/ k <= Position(found, candidates)
      BY <2>1, <3>3 DEF l, k
    <3> QED
      BY <1>1, <2>2, <3>2, <3>4
  <2>5. ASSUME NEW i, Fit(i) PROVE ~MoreSpecific(i, found, candidates)
    <3> DEFINE li == Level(i) + 1
               ki == Position(i, candidates)
    <3>1. <<li, ki>> \in hits /\ li \in 1 .. 4 /\ ki \in DOMAIN candidates /\ May(i, li, ki)
      BY <1>3, <1>5, <1>8, <2>5
    <3>2. l < li \/ (l = li /\ k <= ki)
      BY <2>1, <3>1 DEF l, k
    <3>3. Level(i) \in Nat /\ Level(found) \in Nat /\ ki \in Nat /\ k \in Nat
      BY <1>1, <2>2, <3>1 DEF Level
    <3>4. ~(Level(i) < Level(found))
      BY <2>3, <3>2, <3>3
    <3>5. Level(i) = Level(found) => ~(ki < k)
      BY <2>3, <3>2, <3>3
    <3>6. CASE li = l /\ ki = k
      <4>1. May(i, l, k)
        BY <3>1, <3>6
      <4> HIDE DEF li, ki
      <4>2. /\ PatternLength(Model(i)) <= PatternLength(Model(found))
            /\ PatternLength(Model(i)) = PatternLength(Model(found)) =>
                  /\ ~(priceRules[i].identity.tier # "any" /\ priceRules[found].identity.tier = "any")
                  /\ priceRules[i].identity.tier = priceRules[found].identity.tier => Band(i) <= Band(found)
        BY <1>6, <2>2, <4>1
      <4>3. Band(i) \in Nat /\ Band(found) \in Nat
        BY <2>3, <4>1, EnabledRulesAre DEF May, Selectable
      <4>4. PatternLength(Model(i)) \in Nat /\ PatternLength(Model(found)) \in Nat
        BY DEF PatternLength
      <4> QED
        BY <2>4, <3>4, <3>5, <4>2, <4>3, <4>4 DEF MoreSpecific, Band, ki
    <3>7. CASE ~(li = l /\ ki = k)
      <4>1. ~(Level(i) = Level(found) /\ ki = Position(found, candidates))
        BY <2>3, <2>4, <3>3, <3>7
      <4> QED
        BY <2>4, <3>4, <3>5, <4>1 DEF MoreSpecific
    <3> QED
      BY <3>6, <3>7
  <2>6. found \in DOMAIN priceRules /\ found # NoRule
    BY <2>2, <2>3, EnabledRulesAre DEF Fit, Fits
  <2> QED
    BY <2>3, <2>5, <2>6 DEF WinsByRank, found, Fit
<1> QED
  BY <1>10, <1>11

\* The most specific rule prices a usage: a rule is found whenever one fits, it fits, and none that
\* fits is more specific (billingFindPrice).
THEOREM PricesAreMostSpecific == PriceSpec => []MostSpecificRuleWins
<1>1. PriceInv => MostSpecificRuleWins
  <2> SUFFICES ASSUME PriceInv, NEW candidates \in {<<"m">>, <<"n", "m">>}, NEW tier, NEW tokens \in 0 .. 1
               PROVE  WinsByRank(FindPrice("p", candidates, tier, tokens), "p", candidates, tier, tokens)
    BY DEF MostSpecificRuleWins
  <2>1. candidates \in Seq(PriceModels)
    <3>1. <<"m">> \in Seq(PriceModels)
      BY DEF PriceModels
    <3>2. <<"n", "m">> \in Seq(PriceModels)
      BY DEF PriceModels
    <3> QED
      BY <3>1, <3>2
  <2>2. tokens \in Nat /\ "p" # "any"
    OBVIOUS
  <2> QED
    BY <2>1, <2>2, FoundWins DEF PriceInv
<1>2. PriceSpec => []PriceInv
  BY PriceInitInv, NextPriceInv, PTL DEF PriceSpec
<1> QED
  BY <1>1, <1>2, PTL

-------------------------------------------------------------------------------
(***************************************************************************)
(* In-flight snapshots.  What is staged is what the counters say, for one  *)
(* revision and with one part of each index; what is published is whole    *)
(* and no newer than the attempt of its lifetime.                          *)
(***************************************************************************)
AttemptRows ==
    [revision : Nat, state : {"none", "staging", "complete", "overflow", "rejected"}, header : Headers \cup {"none"},
     count : Nat, received : Nat, bytes : Nat, old : BOOLEAN]

Bytes(parts) == SumFunctionOnSet([p \in parts |-> Cardinality(p.body)], parts)

StagedWith(attempt, parts) ==
    /\ attempt \in AttemptRows
    /\ parts \subseteq PartFrames /\ IsFiniteSet(parts)
    /\ attempt.received = Cardinality(parts) /\ attempt.bytes = Bytes(parts)
    /\ \A p \in parts : p.revision = attempt.revision
    /\ \A p, q \in parts : p.index = q.index => p = q
    /\ attempt.state # "none" => attempt.revision # 0

WholeSnapshot(revision, parts) ==
    /\ \E header \in Headers, n \in 1 .. MaxParts :
          /\ \A p \in parts : p.revision = revision /\ p.header = header /\ p.count = n
          /\ {p.index : p \in parts} = 0 .. n - 1
          /\ Cardinality(parts) = n
    /\ \A p, q \in parts : p # q => p.body \cap q.body = {}

PublishedFits(shown, l, attempt, parts) ==
    shown.lifetime = l =>
        /\ shown.revision <= attempt.revision
        /\ attempt.state = "staging" => shown.revision < attempt.revision
        /\ attempt.state = "complete" /\ shown.revision = attempt.revision => shown.parts = parts

ShownRows == [lifetime : Nat, revision : Nat, parts : SUBSET PartFrames]

Shown(shown) ==
    /\ shown \in ShownRows
    /\ shown = NotVisible \/ (shown.lifetime \in Lifetimes /\ shown.revision # 0 /\ WholeSnapshot(shown.revision, shown.parts))

InFlightInv ==
    /\ lifetime \in Nat /\ memberState \in {"none", "active", "canceling", "closed"}
    /\ DOMAIN attempts = Lifetimes /\ DOMAIN staged = Lifetimes
    /\ \A l \in Lifetimes : StagedWith(attempts[l], staged[l])
    /\ Shown(visible) /\ visible.lifetime <= lifetime
    /\ \A l \in Lifetimes : PublishedFits(visible, l, attempts[l], staged[l])
    /\ \A l \in cleanups : l \in Nat /\ l <= lifetime /\ (l = lifetime => memberState = "closed")

LEMMA NoParts ==
    /\ Cardinality({}) = 0 /\ IsFiniteSet({}) /\ Bytes({}) = 0
  BY FS_EmptySet, EmptySum DEF Bytes

LEMMA OnePartMore ==
    ASSUME NEW parts \in SUBSET PartFrames, IsFiniteSet(parts), NEW frame \in PartFrames, frame \notin parts
    PROVE  /\ IsFiniteSet(parts \cup {frame}) /\ Cardinality(parts \cup {frame}) = Cardinality(parts) + 1
           /\ Bytes(parts \cup {frame}) = Bytes(parts) + Cardinality(frame.body)
           /\ Bytes(parts) \in Nat /\ Cardinality(frame.body) \in Nat
<1> DEFINE more == parts \cup {frame}
           F == [p \in more |-> Cardinality(p.body)]
           G == [p \in parts |-> Cardinality(p.body)]
<1>1. IsFiniteSet(more) /\ Cardinality(more) = Cardinality(parts) + 1
  BY FS_AddElement
<1>2. \A p \in PartFrames : Cardinality(p.body) \in Nat
  <2>1. \A p \in PartFrames : IsFiniteSet(p.body)
    BY InFlightAssumption DEF PartFrames
  <2> QED
    BY <2>1, FS_CardinalityType
<1>3. /\ \A p \in more : F[p] \in Int
      /\ \A p \in parts : F[p] = G[p] /\ G[p] \in Nat
      /\ F[frame] = Cardinality(frame.body) /\ frame \in more /\ more \ {frame} = parts
  BY <1>2
<1> HIDE DEF more, F, G
<1>4. SumFunctionOnSet(F, more) = F[frame] + SumFunctionOnSet(F, more \ {frame})
  BY <1>1, <1>3, SumTakesAny
<1>5. SumFunctionOnSet(F, parts) = SumFunctionOnSet(G, parts)
  BY <1>3, SumAgrees
<1>6. SumFunctionOnSet(G, parts) \in Nat
  BY <1>3, SumOfNaturals
<1>7. SumFunctionOnSet(F, more) = SumFunctionOnSet(G, parts) + Cardinality(frame.body)
  <2>1. SumFunctionOnSet(F, more) = Cardinality(frame.body) + SumFunctionOnSet(G, parts)
    BY <1>3, <1>4, <1>5
  <2> QED
    BY <1>2, <1>6, <2>1
<1> QED
  BY <1>1, <1>2, <1>6, <1>7 DEF more, F, G, Bytes

\* n parts with different indices below n have all the indices.
LEMMA AllIndices ==
    ASSUME NEW parts \in SUBSET PartFrames, IsFiniteSet(parts), NEW n \in Nat, Cardinality(parts) = n,
           \A p \in parts : p.count = n, \A p, q \in parts : p.index = q.index => p = q
    PROVE  {p.index : p \in parts} = 0 .. n - 1
<1> DEFINE indices == {p.index : p \in parts}
           index == [p \in parts |-> p.index]
<1>1. indices \subseteq 0 .. n - 1
  BY DEF PartFrames
<1>2. index \in Injection(parts, indices)
  BY DEF Injection, IsInjective
<1>3. index \in Surjection(parts, indices)
  BY DEF Surjection
<1>4. ExistsBijection(parts, indices)
  BY <1>2, <1>3 DEF ExistsBijection, Bijection
<1> HIDE DEF indices
<1>5. Cardinality(indices) = n
  BY <1>4, FS_Bijection
<1>6. IsFiniteSet(0 .. n - 1) /\ Cardinality(0 .. n - 1) = n
  <2> DEFINE last == n - 1
  <2>1. last \in Int /\ 0 \in Int
    OBVIOUS
  <2> HIDE DEF last
  <2>2. IsFiniteSet(0 .. last) /\ Cardinality(0 .. last) = IF 0 > last THEN 0 ELSE last - 0 + 1
    BY <2>1, FS_Interval
  <2> QED
    BY <2>2 DEF last
<1>7. indices = 0 .. n - 1
  BY <1>1, <1>5, <1>6, FS_Subset
<1> QED
  BY <1>7 DEF indices

\* A frame that is rejected leaves nothing of its revision.
LEMMA RejectedIs ==
    ASSUME NEW attempt, attempt \in AttemptRows, attempt.revision # 0, NEW parts, \A p \in parts : p.revision = attempt.revision
    PROVE  /\ StagedWith(Rejected(attempt), OtherParts(parts, attempt.revision))
           /\ Rejected(attempt).state = "rejected" /\ Rejected(attempt).revision = attempt.revision
<1>1. OtherParts(parts, attempt.revision) = {}
  BY DEF OtherParts
<1>2. /\ Rejected(attempt) \in AttemptRows
      /\ Rejected(attempt).received = 0 /\ Rejected(attempt).bytes = 0
      /\ Rejected(attempt).state = "rejected" /\ Rejected(attempt).revision = attempt.revision
  BY DEF Rejected, AttemptRows
<1> QED
  BY <1>1, <1>2, NoParts DEF StagedWith

\* What a part does to the rows of its lifetime: it is staged or rejected, or completes the snapshot.
Staging(R, frame) ==
    /\ StagedWith(R.attempt, R.parts) /\ R.attempt.revision = frame.revision
    /\ R.attempt.state \in {"staging", "rejected"} /\ R.visible = visible
Completing(R, l, frame) ==
    /\ StagedWith(R.attempt, R.parts) /\ R.attempt.revision = frame.revision
    /\ R.attempt.state = "complete" /\ WholeSnapshot(frame.revision, R.parts)
    /\ R.visible = [lifetime |-> l, revision |-> frame.revision, parts |-> R.parts]

LEMMA StagePartIs ==
    ASSUME NEW l \in Lifetimes, NEW attempt, NEW parts, NEW frame \in PartFrames,
           StagedWith(attempt, parts), attempt.state = "staging", attempt.revision = frame.revision,
           attempt = attempts[l] \/ parts = {}
    PROVE  LET R == StagePart(l, attempt, parts, frame) IN Staging(R, frame) \/ Completing(R, l, frame)
<1> DEFINE R == StagePart(l, attempt, parts, frame)
           same == {p \in parts : p.revision = frame.revision /\ p.index = frame.index}
           bytes == attempt.bytes + Cardinality(frame.body)
           received == attempt.received + 1
           added == [attempt EXCEPT !.received = received, !.bytes = bytes, !.old = FALSE]
           stored == parts \cup {frame}
           ofRevision == {p \in stored : p.revision = frame.revision}
           rejected == [attempt |-> Rejected(attempt), parts |-> OtherParts(stored, attempt.revision), visible |-> visible]
           complete == [added EXCEPT !.state = "complete"]
           published == [lifetime |-> l, revision |-> frame.revision, parts |-> ofRevision]
<1>0. R = CASE same = {frame} -> [attempt |-> attempts[l], parts |-> parts, visible |-> visible]
            [] same # {} /\ same # {frame} -> rejected
            [] same = {} /\ ~ (frame.count = attempt.count /\ frame.header = attempt.header) -> rejected
            [] OTHER -> IF added.bytes > MaxBytes THEN rejected
                        ELSE IF added.received # added.count
                        THEN [attempt |-> added, parts |-> stored, visible |-> visible]
                        ELSE IF ~ CompletePayload(ofRevision, frame) THEN rejected
                        ELSE [attempt |-> complete, parts |-> stored, visible |-> published]
  BY DEF StagePart
<1> HIDE DEF R
<1>1. attempt \in AttemptRows /\ frame.revision # 0
  BY InFlightAssumption DEF StagedWith, PartFrames
<1>2. \A p \in stored : p.revision = frame.revision
  BY DEF StagedWith
<1>3. CASE R = rejected
  <2>1. \A p \in stored : p.revision = attempt.revision
    BY <1>2
  <2> HIDE DEF stored
  <2>2. /\ StagedWith(Rejected(attempt), OtherParts(stored, attempt.revision))
        /\ Rejected(attempt).state = "rejected" /\ Rejected(attempt).revision = attempt.revision
    BY <1>1, <2>1, RejectedIs
  <2> QED
    BY <1>3, <2>2 DEF Staging, R
<1>4. CASE same = {frame}
  <2>1. R = [attempt |-> attempts[l], parts |-> parts, visible |-> visible]
    BY <1>0, <1>4
  <2>2. attempt = attempts[l]
    BY <1>4
  <2> QED
    BY <2>1, <2>2 DEF Staging, R
<1>5. CASE same = {} /\ R # rejected
  <2>1. R = IF added.received # added.count THEN [attempt |-> added, parts |-> stored, visible |-> visible]
            ELSE [attempt |-> complete, parts |-> stored, visible |-> published]
    BY <1>0, <1>5
  <2>2. frame \notin parts /\ parts \in SUBSET PartFrames /\ IsFiniteSet(parts)
    BY <1>5 DEF StagedWith
  <2>3. /\ IsFiniteSet(stored) /\ Cardinality(stored) = Cardinality(parts) + 1
        /\ Bytes(stored) = Bytes(parts) + Cardinality(frame.body)
        /\ Bytes(parts) \in Nat /\ Cardinality(frame.body) \in Nat
    BY <2>2, OnePartMore
  <2>4. /\ added \in AttemptRows /\ added.received = Cardinality(stored) /\ added.bytes = Bytes(stored)
        /\ added.revision = frame.revision /\ added.state = "staging" /\ added.count = attempt.count
    <3>1. received \in Nat /\ received = Cardinality(stored) /\ bytes \in Nat /\ bytes = Bytes(stored)
      BY <1>1, <2>3 DEF StagedWith, AttemptRows
    <3> HIDE DEF received, bytes, stored
    <3> QED
      BY <1>1, <3>1 DEF AttemptRows
  <2>5. \A p, q \in stored : p.index = q.index => p = q
    BY <1>2, <1>5 DEF StagedWith
  <2>6. stored \subseteq PartFrames
    BY <2>2
  <2>7. StagedWith(added, stored)
    BY <1>1, <1>2, <2>3, <2>4, <2>5, <2>6 DEF StagedWith
  <2>8. CASE R = [attempt |-> added, parts |-> stored, visible |-> visible]
    <3> HIDE DEF added, stored
    <3>1. R.attempt = added /\ R.parts = stored /\ R.visible = visible
      BY <2>8
    <3>2. Staging(R, frame)
      BY <2>4, <2>7, <3>1 DEF Staging
    <3> QED
      BY <3>2 DEF R
  <2>9. CASE R = [attempt |-> complete, parts |-> stored, visible |-> published] /\ added.received = added.count
    <3>1. CompletePayload(ofRevision, frame)
      BY <1>0, <1>5, <2>9
    <3>2. ofRevision = stored
      BY <1>2
    <3>3. frame.count \in 1 .. MaxParts /\ frame.header \in Headers
      BY DEF PartFrames
    <3> HIDE DEF stored, added
    <3>4. /\ complete \in AttemptRows /\ complete.state = "complete" /\ complete.revision = added.revision
          /\ complete.received = added.received /\ complete.bytes = added.bytes
      BY <2>4 DEF AttemptRows
    <3> HIDE DEF complete, ofRevision
    <3>5. StagedWith(complete, stored)
      BY <1>1, <2>4, <2>7, <3>4 DEF StagedWith
    <3>6. /\ Cardinality(stored) = frame.count
          /\ \A p \in stored : p.header = frame.header /\ p.count = frame.count
          /\ \A p, q \in stored : p # q => p.body \cap q.body = {}
      BY <3>1, <3>2 DEF CompletePayload
    <3>7. {p.index : p \in stored} = 0 .. frame.count - 1
      <4>1. frame.count \in Nat
        BY <3>3
      <4> QED
        BY <2>3, <2>5, <2>6, <3>6, <4>1, AllIndices
    <3>8. WholeSnapshot(frame.revision, stored)
      BY <1>2, <3>3, <3>6, <3>7 DEF WholeSnapshot
    <3> QED
      BY <2>4, <2>9, <3>2, <3>4, <3>5, <3>8 DEF Completing, R
  <2> QED
    BY <2>1, <2>8, <2>9
<1> QED
  BY <1>0, <1>3, <1>4, <1>5

\* A step of PublishedMovesForward and of SettledStaysSettled.
Forward ==
    visible' # visible =>
        \/ visible'.lifetime > visible.lifetime
        \/ visible'.lifetime = visible.lifetime /\ visible'.revision > visible.revision
        \/ visible' = NotVisible /\ (visible.lifetime # lifetime \/ memberState = "closed")
Settled ==
    \A l \in Lifetimes :
        attempts[l].state \in {"complete", "overflow", "rejected"}
        /\ attempts'[l].revision = attempts[l].revision => attempts'[l].state = attempts[l].state
Keeps == InFlightInv' /\ Forward /\ Settled

LEMMA InFlightInitInv == InFlightInit => InFlightInv
<1> SUFFICES ASSUME InFlightInit PROVE InFlightInv
  OBVIOUS
<1>1. NoAttempt \in AttemptRows /\ NoAttempt.state = "none" /\ NoAttempt.received = 0 /\ NoAttempt.bytes = 0
  BY DEF NoAttempt, AttemptRows
<1>2. NotVisible \in ShownRows /\ NotVisible.lifetime = 0
  BY DEF NotVisible, ShownRows
<1>3. StagedWith(NoAttempt, {})
  BY <1>1, NoParts DEF StagedWith
<1>4. \A l \in Lifetimes : attempts[l] = NoAttempt /\ staged[l] = {} /\ l # 0
  BY InFlightAssumption DEF InFlightInit
<1> QED
  BY <1>2, <1>3, <1>4 DEF InFlightInit, InFlightInv, Shown, PublishedFits

\* A frame of an active lifetime is newer than what is published of it.
LEMMA FrameIsNewer ==
    ASSUME InFlightInv, NEW l \in Lifetimes, NEW revision \in Nat,
           revision > attempts[l].revision \/ (revision = attempts[l].revision /\ attempts[l].state = "staging")
    PROVE  visible.lifetime = l => visible.revision < revision
<1>1. StagedWith(attempts[l], staged[l]) /\ PublishedFits(visible, l, attempts[l], staged[l]) /\ visible \in ShownRows
  BY DEF InFlightInv, Shown
<1>2. attempts[l].revision \in Nat /\ visible.revision \in Nat
  BY <1>1 DEF StagedWith, AttemptRows, ShownRows
<1> QED
  BY <1>1, <1>2 DEF PublishedFits

LEMMA WriteKeeps ==
    ASSUME InFlightInv, NEW l \in Lifetimes, RequireActiveCPAMembership(l),
           NEW revision \in Nat,
           revision > attempts[l].revision \/ (revision = attempts[l].revision /\ attempts[l].state = "staging"),
           NEW attempt, NEW parts, NEW shown, Write(l, attempt, parts, shown),
           StagedWith(attempt, parts), attempt.revision = revision,
           \/ shown = visible /\ attempt.state # "complete"
           \/ /\ shown = [lifetime |-> l, revision |-> revision, parts |-> parts]
              /\ WholeSnapshot(revision, parts) /\ attempt.state # "staging" /\ revision # 0
    PROVE  Keeps
<1>1. visible.lifetime = l => visible.revision < revision
  BY FrameIsNewer
<1>2. /\ attempts' = [attempts EXCEPT ![l] = attempt] /\ staged' = [staged EXCEPT ![l] = parts]
      /\ visible' = shown /\ UNCHANGED <<lifetime, memberState, cleanups>>
  BY DEF Write
<1>3. lifetime = l /\ lifetime \in Nat /\ visible.lifetime <= lifetime /\ visible.lifetime \in Nat /\ visible.revision \in Nat
  BY DEF InFlightInv, RequireActiveCPAMembership, Shown, ShownRows
<1>4. ASSUME NEW k \in Lifetimes
      PROVE  /\ attempts'[k] = (IF k = l THEN attempt ELSE attempts[k])
             /\ staged'[k] = (IF k = l THEN parts ELSE staged[k])
  BY <1>2 DEF InFlightInv
<1>5. DOMAIN attempts' = Lifetimes /\ DOMAIN staged' = Lifetimes
  BY <1>2 DEF InFlightInv
<1>6. \A k \in Lifetimes : StagedWith(attempts'[k], staged'[k])
  BY <1>4 DEF InFlightInv
<1>7. ASSUME NEW k \in Lifetimes PROVE PublishedFits(shown, k, attempts'[k], staged'[k])
  <2>1. CASE shown = visible
    <3>1. CASE k = l
      BY <1>1, <1>3, <1>4, <2>1, <3>1 DEF PublishedFits
    <3>2. CASE k # l
      BY <1>4, <2>1, <3>2 DEF PublishedFits, InFlightInv
    <3> QED
      BY <3>1, <3>2
  <2>2. CASE shown = [lifetime |-> l, revision |-> revision, parts |-> parts] /\ attempt.state # "staging"
    BY <1>4, <2>2 DEF PublishedFits
  <2> QED
    BY <2>1, <2>2
<1>8. Shown(shown) /\ shown.lifetime <= lifetime
  <2>1. CASE shown = visible
    BY <2>1 DEF InFlightInv
  <2>2. CASE /\ shown = [lifetime |-> l, revision |-> revision, parts |-> parts]
             /\ WholeSnapshot(revision, parts) /\ revision # 0
    <3>1. shown \in ShownRows
      BY <1>3, <2>2 DEF ShownRows, StagedWith
    <3> QED
      BY <1>3, <2>2, <3>1 DEF Shown
  <2> QED
    BY <2>1, <2>2
<1>9. InFlightInv'
  <2>1. Shown(visible') /\ visible'.lifetime <= lifetime' /\ \A k \in Lifetimes : PublishedFits(visible', k, attempts'[k], staged'[k])
    BY <1>2, <1>7, <1>8
  <2> QED
    BY <1>2, <1>5, <1>6, <2>1 DEF InFlightInv
<1>10. Forward
  <2>1. CASE shown = visible
    BY <1>2, <2>1 DEF Forward
  <2>2. CASE shown = [lifetime |-> l, revision |-> revision, parts |-> parts]
    <3>1. visible'.lifetime = l /\ visible'.revision = revision
      BY <1>2, <2>2
    <3> QED
      BY <1>1, <1>3, <3>1 DEF Forward
  <2> QED
    BY <2>1, <2>2
<1>11. Settled
  <2>1. revision > attempts[l].revision => attempts[l].revision # revision
    BY DEF InFlightInv, StagedWith, AttemptRows
  <2> QED
    BY <1>4, <2>1 DEF Settled
<1> QED
  BY <1>9, <1>10, <1>11 DEF Keeps

LEMMA IngestPartKeeps ==
    ASSUME InFlightInv, NEW l \in Lifetimes, NEW frame \in PartFrames, IngestPart(l, frame)
    PROVE  Keeps
<1> DEFINE attempt == IF Starts(l, frame) THEN NewAttempt(frame) ELSE attempts[l]
           parts == IF Starts(l, frame) THEN {} ELSE staged[l]
           R == StagePart(l, attempt, parts, frame)
<1>1. /\ RequireActiveCPAMembership(l)
      /\ Starts(l, frame) \/ (frame.revision = attempts[l].revision /\ attempts[l].state = "staging")
      /\ Write(l, R.attempt, R.parts, R.visible)
  BY DEF IngestPart
<1>2. frame.revision \in Nat /\ frame.revision # 0
  BY InFlightAssumption DEF PartFrames
<1>3. StagedWith(attempt, parts) /\ attempt.state = "staging" /\ attempt.revision = frame.revision
  <2>1. CASE Starts(l, frame)
    <3>1. /\ NewAttempt(frame) \in AttemptRows
          /\ NewAttempt(frame).received = 0 /\ NewAttempt(frame).bytes = 0
          /\ NewAttempt(frame).state = "staging" /\ NewAttempt(frame).revision = frame.revision
      BY <1>2 DEF NewAttempt, AttemptRows, PartFrames
    <3>2. StagedWith(NewAttempt(frame), {})
      BY <1>2, <3>1, NoParts DEF StagedWith
    <3> QED
      BY <2>1, <3>1, <3>2
  <2>2. CASE ~ Starts(l, frame)
    BY <1>1, <2>2 DEF InFlightInv
  <2> QED
    BY <2>1, <2>2
<1>4. attempt = attempts[l] \/ parts = {}
  OBVIOUS
<1>5. \/ frame.revision > attempts[l].revision
      \/ frame.revision = attempts[l].revision /\ attempts[l].state = "staging"
  BY <1>1 DEF Starts
<1> HIDE DEF attempt, parts
<1>6. Staging(R, frame) \/ Completing(R, l, frame)
  BY <1>3, <1>4, StagePartIs
<1> HIDE DEF R
<1> DEFINE revision == frame.revision
           next == R.attempt
           rows == R.parts
           shown == R.visible
<1>7. /\ StagedWith(next, rows) /\ next.revision = revision
      /\ \/ shown = visible /\ next.state # "complete"
         \/ /\ shown = [lifetime |-> l, revision |-> revision, parts |-> rows]
            /\ WholeSnapshot(revision, rows) /\ next.state # "staging" /\ revision # 0
  BY <1>2, <1>6 DEF Staging, Completing
<1> HIDE DEF revision, next, rows, shown
<1>8. revision \in Nat /\ Write(l, next, rows, shown)
      /\ (revision > attempts[l].revision \/ (revision = attempts[l].revision /\ attempts[l].state = "staging"))
  BY <1>1, <1>2, <1>5 DEF revision, next, rows, shown
<1> QED
  BY <1>1, <1>7, <1>8, WriteKeeps

LEMMA EmptyAttemptIs ==
    ASSUME NEW revision \in Nat, revision # 0, NEW state \in {"overflow", "rejected"}
    PROVE  /\ StagedWith(EmptyAttempt(revision, state), {})
           /\ EmptyAttempt(revision, state).revision = revision /\ EmptyAttempt(revision, state).state = state
<1>1. /\ EmptyAttempt(revision, state) \in AttemptRows
      /\ EmptyAttempt(revision, state).received = 0 /\ EmptyAttempt(revision, state).bytes = 0
      /\ EmptyAttempt(revision, state).revision = revision /\ EmptyAttempt(revision, state).state = state
  BY DEF EmptyAttempt, NoAttempt, AttemptRows
<1> QED
  BY <1>1, NoParts DEF StagedWith

LEMMA IngestOtherKeeps ==
    ASSUME InFlightInv, NEW l \in Lifetimes, NEW revision \in Revisions, NEW state \in {"overflow", "rejected"},
           RequireActiveCPAMembership(l),
           \/ /\ revision > attempts[l].revision
              /\ Write(l, EmptyAttempt(revision, state), {}, visible)
           \/ /\ revision = attempts[l].revision /\ attempts[l].state = "staging"
              /\ Write(l, Rejected(attempts[l]), OtherParts(staged[l], revision), visible)
    PROVE  Keeps
<1>1. revision \in Nat /\ revision # 0
  BY InFlightAssumption
<1>2. CASE revision > attempts[l].revision /\ Write(l, EmptyAttempt(revision, state), {}, visible)
  <2> DEFINE attempt == EmptyAttempt(revision, state)
  <2>1. StagedWith(attempt, {}) /\ attempt.revision = revision /\ attempt.state # "complete"
    BY <1>1, EmptyAttemptIs
  <2>2. Write(l, attempt, {}, visible)
    BY <1>2
  <2> HIDE DEF attempt
  <2> QED
    BY <1>1, <1>2, <2>1, <2>2, WriteKeeps
<1>3. CASE /\ revision = attempts[l].revision /\ attempts[l].state = "staging"
           /\ Write(l, Rejected(attempts[l]), OtherParts(staged[l], revision), visible)
  <2> DEFINE attempt == Rejected(attempts[l])
             parts == OtherParts(staged[l], revision)
  <2>1. StagedWith(attempts[l], staged[l])
    BY DEF InFlightInv
  <2>2. StagedWith(attempt, parts) /\ attempt.revision = revision /\ attempt.state = "rejected"
    BY <1>1, <1>3, <2>1, RejectedIs DEF StagedWith
  <2>3. Write(l, attempt, parts, visible)
    BY <1>3
  <2> HIDE DEF attempt, parts
  <2> QED
    BY <1>1, <1>3, <2>2, <2>3, WriteKeeps
<1> QED
  BY <1>2, <1>3

\* Steps that change the attempt of one lifetime and publish nothing.
LEMMA AttemptKeeps ==
    ASSUME InFlightInv, NEW l \in Lifetimes, NEW attempt, NEW parts, StagedWith(attempt, parts),
           attempts' = [attempts EXCEPT ![l] = attempt],
           DOMAIN staged' = Lifetimes, \A k \in Lifetimes : staged'[k] = IF k = l THEN parts ELSE staged[k],
           UNCHANGED <<lifetime, memberState, cleanups, visible>>,
           attempt.revision = attempts[l].revision, attempts[l].state = "staging",
           attempt.state \in {"staging", "rejected"}
    PROVE  Keeps
<1>1. ASSUME NEW k \in Lifetimes
      PROVE  /\ attempts'[k] = (IF k = l THEN attempt ELSE attempts[k])
             /\ staged'[k] = (IF k = l THEN parts ELSE staged[k])
  BY DEF InFlightInv
<1>2. DOMAIN attempts' = Lifetimes /\ DOMAIN staged' = Lifetimes
  BY DEF InFlightInv
<1>3. \A k \in Lifetimes : StagedWith(attempts'[k], staged'[k])
  BY <1>1 DEF InFlightInv
<1>4. \A k \in Lifetimes : PublishedFits(visible, k, attempts'[k], staged'[k])
  BY <1>1 DEF InFlightInv, PublishedFits
<1>5. InFlightInv'
  <2>1. Shown(visible') /\ visible'.lifetime <= lifetime' /\ \A k \in Lifetimes : PublishedFits(visible', k, attempts'[k], staged'[k])
    BY <1>4 DEF InFlightInv
  <2> QED
    BY <1>2, <1>3, <2>1 DEF InFlightInv
<1>6. Forward /\ Settled
  BY <1>1 DEF Forward, Settled
<1> QED
  BY <1>5, <1>6 DEF Keeps

LEMMA StagingAgesKeeps ==
    ASSUME InFlightInv, NEW l \in Lifetimes, StagingAges(l)
    PROVE  Keeps
<1> DEFINE attempt == [attempts[l] EXCEPT !.old = TRUE]
           parts == staged[l]
<1>1. StagedWith(attempts[l], parts) /\ attempts[l].state = "staging"
  BY DEF InFlightInv, StagingAges
<1>2. /\ attempt \in AttemptRows /\ attempt.state = "staging" /\ attempt.revision = attempts[l].revision
      /\ attempt.received = attempts[l].received /\ attempt.bytes = attempts[l].bytes
  BY <1>1 DEF StagedWith, AttemptRows
<1>3. /\ attempts' = [attempts EXCEPT ![l] = attempt]
      /\ DOMAIN staged' = Lifetimes /\ \A k \in Lifetimes : staged'[k] = IF k = l THEN parts ELSE staged[k]
      /\ UNCHANGED <<lifetime, memberState, cleanups, visible>>
  BY DEF StagingAges, InFlightInv
<1> HIDE DEF attempt, parts
<1>4. StagedWith(attempt, parts)
  BY <1>1, <1>2 DEF StagedWith
<1> QED
  BY <1>1, <1>2, <1>3, <1>4, AttemptKeeps

LEMMA CleanupExpiredAttemptKeeps ==
    ASSUME InFlightInv, NEW l \in Lifetimes, CleanupExpiredAttempt(l)
    PROVE  Keeps
<1> DEFINE attempt == Rejected(attempts[l])
           parts == OtherParts(staged[l], attempts[l].revision)
<1>1. StagedWith(attempts[l], staged[l]) /\ attempts[l].state = "staging"
  BY DEF InFlightInv, CleanupExpiredAttempt
<1>2. StagedWith(attempt, parts) /\ attempt.revision = attempts[l].revision /\ attempt.state = "rejected"
  BY <1>1, RejectedIs DEF StagedWith
<1>3. /\ attempts' = [attempts EXCEPT ![l] = attempt]
      /\ DOMAIN staged' = Lifetimes /\ \A k \in Lifetimes : staged'[k] = IF k = l THEN parts ELSE staged[k]
      /\ UNCHANGED <<lifetime, memberState, cleanups, visible>>
  BY DEF CleanupExpiredAttempt, InFlightInv
<1> HIDE DEF attempt, parts
<1> QED
  BY <1>1, <1>2, <1>3, AttemptKeeps

LEMMA CleanupInFlightLifetimeKeeps ==
    ASSUME InFlightInv, NEW l \in Lifetimes, CleanupInFlightLifetime(l)
    PROVE  Keeps
<1>1. /\ NoAttempt \in AttemptRows /\ NoAttempt.state = "none" /\ NoAttempt.received = 0 /\ NoAttempt.bytes = 0
      /\ NoAttempt.revision = 0
  BY DEF NoAttempt, AttemptRows
<1>2. StagedWith(NoAttempt, {})
  BY <1>1, NoParts DEF StagedWith
<1>3. ASSUME NEW k \in Lifetimes
      PROVE  /\ attempts'[k] = (IF k = l THEN NoAttempt ELSE attempts[k])
             /\ staged'[k] = (IF k = l THEN {} ELSE staged[k])
  BY DEF InFlightInv, CleanupInFlightLifetime
<1>4. DOMAIN attempts' = Lifetimes /\ DOMAIN staged' = Lifetimes
  BY DEF InFlightInv, CleanupInFlightLifetime
<1>5. /\ visible' = (IF visible.lifetime = l THEN NotVisible ELSE visible)
      /\ l \in cleanups /\ cleanups' = cleanups \ {l} /\ UNCHANGED <<lifetime, memberState>>
  BY DEF CleanupInFlightLifetime
<1>6. NotVisible \in ShownRows /\ NotVisible.lifetime = 0 /\ l # 0 /\ 0 <= lifetime
  BY InFlightAssumption DEF NotVisible, ShownRows, InFlightInv
<1>7. Shown(visible') /\ visible'.lifetime <= lifetime
  BY <1>5, <1>6 DEF InFlightInv, Shown
<1>8. ASSUME NEW k \in Lifetimes PROVE PublishedFits(visible', k, attempts'[k], staged'[k])
  <2>1. CASE visible.lifetime = l
    <3>1. visible'.lifetime = 0 /\ k # 0
      BY <1>5, <1>6, <2>1, InFlightAssumption
    <3> QED
      BY <3>1 DEF PublishedFits
  <2>2. CASE visible.lifetime # l
    BY <1>3, <1>5, <2>2 DEF PublishedFits, InFlightInv
  <2> QED
    BY <2>1, <2>2
<1>9. InFlightInv'
  BY <1>2, <1>3, <1>4, <1>5, <1>7, <1>8 DEF InFlightInv
<1>10. Forward
  BY <1>5 DEF Forward, InFlightInv
<1>11. Settled
  BY <1>1, <1>3 DEF Settled, InFlightInv, StagedWith
<1> QED
  BY <1>9, <1>10, <1>11 DEF Keeps

LEMMA MembershipStepKeeps ==
    ASSUME InFlightInv,
           \/ \E l \in Lifetimes : Connect(l) \/ LoseCleanup(l)
           \/ BeginCancel \/ FinishCancel \/ UNCHANGED inFlightVars
    PROVE  Keeps
<1>1. UNCHANGED <<attempts, staged, visible>>
  BY DEF Connect, LoseCleanup, BeginCancel, FinishCancel, inFlightVars
<1>2. /\ lifetime' \in Nat /\ memberState' \in {"none", "active", "canceling", "closed"} /\ lifetime <= lifetime'
      /\ \A l \in cleanups' : l \in Nat /\ l <= lifetime' /\ (l = lifetime' => memberState' = "closed")
  <2>1. CASE \E l \in Lifetimes : Connect(l)
    BY <2>1 DEF InFlightInv, Connect
  <2>2. CASE \E l \in Lifetimes : LoseCleanup(l)
    BY <2>2 DEF InFlightInv, LoseCleanup
  <2>3. CASE BeginCancel
    BY <2>3 DEF InFlightInv, BeginCancel
  <2>4. CASE FinishCancel
    BY <2>4 DEF InFlightInv, FinishCancel
  <2>5. CASE UNCHANGED inFlightVars
    BY <2>5 DEF InFlightInv, inFlightVars
  <2> QED
    BY <2>1, <2>2, <2>3, <2>4, <2>5
<1>3. visible'.lifetime <= lifetime'
  <2>1. visible.lifetime \in Nat /\ lifetime \in Nat /\ visible.lifetime <= lifetime
    BY DEF InFlightInv, Shown, ShownRows
  <2> QED
    BY <1>1, <1>2, <2>1
<1>4. InFlightInv'
  <2>1. Shown(visible') /\ \A l \in Lifetimes :
          StagedWith(attempts'[l], staged'[l]) /\ PublishedFits(visible', l, attempts'[l], staged'[l])
    BY <1>1 DEF InFlightInv
  <2>2. DOMAIN attempts' = Lifetimes /\ DOMAIN staged' = Lifetimes
    BY <1>1 DEF InFlightInv
  <2> QED
    BY <1>2, <1>3, <2>1, <2>2 DEF InFlightInv
<1>5. Forward /\ Settled
  BY <1>1 DEF Forward, Settled
<1> QED
  BY <1>4, <1>5 DEF Keeps

LEMMA InFlightNextKeeps == InFlightInv /\ [InFlightNext]_inFlightVars => Keeps
<1> SUFFICES ASSUME InFlightInv, [InFlightNext]_inFlightVars PROVE Keeps
  OBVIOUS
<1>1. CASE \E l \in Lifetimes, frame \in PartFrames : IngestPart(l, frame)
  BY <1>1, IngestPartKeeps
<1>2. CASE \E l \in Lifetimes, frame \in OverflowFrames : IngestOverflow(l, frame)
  <2>1. PICK l \in Lifetimes, frame \in OverflowFrames : IngestOverflow(l, frame)
    BY <1>2
  <2>2. frame.revision \in Revisions
    BY DEF OverflowFrames
  <2>3. /\ RequireActiveCPAMembership(l)
        /\ \/ /\ frame.revision > attempts[l].revision
              /\ Write(l, EmptyAttempt(frame.revision, "overflow"), {}, visible)
           \/ /\ frame.revision = attempts[l].revision /\ attempts[l].state = "staging"
              /\ Write(l, Rejected(attempts[l]), OtherParts(staged[l], frame.revision), visible)
    BY <2>1 DEF IngestOverflow, Starts
  <2> QED
    BY <2>2, <2>3, IngestOtherKeeps
<1>3. CASE \E l \in Lifetimes, frame \in InvalidFrames : IngestInvalid(l, frame)
  <2>1. PICK l \in Lifetimes, frame \in InvalidFrames : IngestInvalid(l, frame)
    BY <1>3
  <2>2. frame.revision \in Revisions
    BY DEF InvalidFrames
  <2>3. /\ RequireActiveCPAMembership(l)
        /\ \/ /\ frame.revision > attempts[l].revision
              /\ Write(l, EmptyAttempt(frame.revision, "rejected"), {}, visible)
           \/ /\ frame.revision = attempts[l].revision /\ attempts[l].state = "staging"
              /\ Write(l, Rejected(attempts[l]), OtherParts(staged[l], frame.revision), visible)
    BY <2>1 DEF IngestInvalid, Starts
  <2> QED
    BY <2>2, <2>3, IngestOtherKeeps
<1>4. CASE \E l \in Lifetimes : StagingAges(l) \/ CleanupExpiredAttempt(l) \/ CleanupInFlightLifetime(l)
  BY <1>4, StagingAgesKeeps, CleanupExpiredAttemptKeeps, CleanupInFlightLifetimeKeeps
<1>5. CASE \/ \E l \in Lifetimes : Connect(l) \/ LoseCleanup(l)
           \/ BeginCancel \/ FinishCancel \/ UNCHANGED inFlightVars
  BY <1>5, MembershipStepKeeps
<1> QED
  BY <1>1, <1>2, <1>3, <1>4, <1>5 DEF InFlightNext

\* Readers see one whole snapshot of a node and the counters of an attempt are those of its
\* parts, in whatever order, repetition and mixture of revisions and lifetimes the frames come
\* (stageInFlightPart, completeInFlightPayload).
THEOREM SnapshotsStayWhole == InFlightSpec => []SnapshotsAreWhole
<1>1. InFlightInv => SnapshotsAreWhole
  <2> SUFFICES ASSUME InFlightInv PROVE SnapshotsAreWhole
    OBVIOUS
  <2>1. CountersMatchParts
    BY DEF CountersMatchParts, InFlightInv, StagedWith, Bytes, SumFunction
  <2>2. PublishedIsWhole
    <3> SUFFICES ASSUME visible.revision # 0
                 PROVE  /\ WholeSnapshot(visible.revision, visible.parts)
                        /\ ObservationComplete => visible.parts = staged[lifetime]
      BY DEF PublishedIsWhole, WholeSnapshot
    <3>1. visible.lifetime \in Lifetimes /\ WholeSnapshot(visible.revision, visible.parts)
      BY DEF InFlightInv, Shown, NotVisible
    <3>2. PublishedFits(visible, visible.lifetime, attempts[visible.lifetime], staged[visible.lifetime])
      BY <3>1 DEF InFlightInv
    <3> QED
      BY <3>1, <3>2 DEF PublishedFits, ObservationComplete
  <2> QED
    BY <2>1, <2>2 DEF SnapshotsAreWhole
<1>2. InFlightInv /\ [InFlightNext]_inFlightVars => InFlightInv'
  BY InFlightNextKeeps DEF Keeps
<1> QED
  BY <1>1, <1>2, InFlightInitInv, PTL DEF InFlightSpec

\* What is published of a node only moves forward, and what became of a revision is final,
\* whatever the network repeats and whichever cleanup comes late (in_flight_ingest.go).
THEOREM SnapshotsMoveForward == InFlightSpec => PublishedMovesForward /\ SettledStaysSettled
<1>1. InFlightInv /\ [InFlightNext]_inFlightVars => InFlightInv'
  BY InFlightNextKeeps DEF Keeps
<1>2. InFlightInv /\ [InFlightNext]_inFlightVars => [Forward]_inFlightVars /\ [Settled]_inFlightVars
  BY InFlightNextKeeps DEF Keeps
<1>3. [Forward]_inFlightVars <=>
        [visible' # visible =>
            \/ visible'.lifetime > visible.lifetime
            \/ visible'.lifetime = visible.lifetime /\ visible'.revision > visible.revision
            \/ visible' = NotVisible /\ (visible.lifetime # lifetime \/ memberState = "closed")]_inFlightVars
  BY DEF Forward
<1>4. [Settled]_inFlightVars <=>
        [\A l \in Lifetimes :
            attempts[l].state \in {"complete", "overflow", "rejected"}
            /\ attempts'[l].revision = attempts[l].revision => attempts'[l].state = attempts[l].state]_inFlightVars
  BY DEF Settled
<1> QED
  BY <1>1, <1>2, <1>3, <1>4, InFlightInitInv, PTL DEF InFlightSpec, PublishedMovesForward, SettledStaysSettled

-------------------------------------------------------------------------------
(***************************************************************************)
(* Views of in-flight snapshots.  A view is whole until it has expired,    *)
(* and as long as anyone reads it; what loses its header has lost all its  *)
(* rows.                                                                   *)
(***************************************************************************)
ReaderPhases == {"idle", "locked", "details", "done", "incomplete"}
ReaderRecords == [view : Views \cup {0}, offset : Nat, phase : ReaderPhases]

WholeView(row) == row.header /\ row.items = 0 .. row.total - 1 /\ row.projection = Projection(row.total)
BareView(row) == row.items = {} /\ row.projection = 0

ViewTyped(row) ==
    /\ DOMAIN row = {"header", "expired", "total", "items", "projection"}
    /\ row.total \in Nat /\ row.header \in BOOLEAN

CursorInv ==
    /\ DOMAIN views = Views
    /\ \A v \in Views : ViewTyped(views[v])
    /\ readers \in [Readers -> ReaderRecords]
    /\ \A v \in Views : views[v].header /\ ~ views[v].expired => WholeView(views[v])
    /\ \A v \in Views : ~ views[v].header => BareView(views[v])
    /\ \A r \in Readers : readers[r].phase # "idle" =>
          readers[r].view \in Views /\ WholeView(views[readers[r].view]) /\ readers[r].phase # "incomplete"

LEMMA CursorInitInv == CursorInit => CursorInv
<1> SUFFICES ASSUME CursorInit PROVE CursorInv
  OBVIOUS
<1>1. DOMAIN views = Views /\ \A v \in Views : views[v] = NoView
  BY DEF CursorInit
<1>2. ViewTyped(NoView) /\ BareView(NoView) /\ ~ NoView.header
  BY DEF NoView, ViewTyped, BareView
<1>3. readers \in [Readers -> ReaderRecords] /\ \A r \in Readers : readers[r].phase = "idle"
  BY DEF CursorInit, NoReader, ReaderRecords, ReaderPhases
<1> QED
  BY <1>1, <1>2, <1>3 DEF CursorInv

\* The query for a page of a whole view returns exactly the ordinals of the page.
LEMMA WholePage ==
    ASSUME NEW v \in Views, NEW offset \in Nat, views[v].total \in Nat, views[v].items = 0 .. views[v].total - 1
    PROVE  PageItems(v, offset) = offset .. offset + PageCount(views[v].total, offset) - 1
<1> DEFINE total == views[v].total
           n == PageCount(total, offset)
           found == {i \in views[v].items : i >= offset}
<1>1. /\ n \in Nat
      /\ offset >= total => n = 0
      /\ offset < total => n <= total - offset
  <2>1. CASE offset >= total
    BY <2>1 DEF PageCount
  <2>2. CASE offset < total
    <3>1. total - offset \in Nat /\ PageSize \in Nat /\ n = Min({total - offset, PageSize})
      BY <2>2, SnapshotCursorAssumption DEF PageCount
    <3>2. \E x \in {total - offset, PageSize} : \A y \in {total - offset, PageSize} : x <= y
      <4>1. CASE total - offset <= PageSize
        BY <3>1, <4>1
      <4>2. CASE ~ (total - offset <= PageSize)
        BY <3>1, <4>2
      <4> QED
        BY <4>1, <4>2
    <3>3. n \in {total - offset, PageSize} /\ n <= total - offset
      BY <3>1, <3>2 DEF Min
    <3> QED
      BY <2>2, <3>1, <3>3
  <2> QED
    BY <2>1, <2>2
<1>2. found = offset .. total - 1
  OBVIOUS
<1>3. ASSUME NEW i \in found
      PROVE  Cardinality({j \in found : j < i}) = i - offset
  <2>1. {j \in found : j < i} = offset .. i - 1 /\ i \in Int /\ i >= offset
    BY <1>2
  <2>2. i - 1 \in Int /\ offset \in Int
    BY <2>1
  <2>3. Cardinality(offset .. i - 1) = IF offset > i - 1 THEN 0 ELSE i - 1 - offset + 1
    BY <2>2, FS_Interval
  <2>4. Cardinality(offset .. i - 1) = i - offset
    BY <2>1, <2>3
  <2> QED
    BY <2>1, <2>4
<1>4. PageItems(v, offset) = {i \in found : i - offset < n}
  BY <1>3 DEF PageItems
<1> HIDE DEF n, found
<1> QED
  BY <1>1, <1>2, <1>4 DEF n, total

\* What the cleanup leaves of an expired view.
LEMMA DeletedView ==
    ASSUME NEW v \in Views, ViewTyped(views[v]), Expired(v)
    PROVE  /\ ViewTyped(Deleted(v)) /\ Deleted(v).expired
           /\ ~ Deleted(v).header => BareView(Deleted(v))
<1>1. PICK projection, items :
         \/ Deleted(v) = [NoView EXCEPT !.expired = TRUE]
         \/ Deleted(v) = [views[v] EXCEPT !.projection = projection, !.items = items]
  BY DEF Deleted
<1>2. CASE Deleted(v) = [NoView EXCEPT !.expired = TRUE]
  BY <1>2 DEF NoView, BareView, ViewTyped
<1>3. CASE Deleted(v) = [views[v] EXCEPT !.projection = projection, !.items = items]
  BY <1>3 DEF ViewTyped, Expired
<1> QED
  BY <1>1, <1>2, <1>3

LEMMA CreateViewInv ==
    ASSUME CursorInv, NEW v \in Views, NEW total \in Totals, CreateInFlightSnapshotCursor(v, total)
    PROVE  CursorInv'
<1> USE DEF CursorInv
<1>1. total \in Nat
  BY SnapshotCursorAssumption
<1>2. ASSUME NEW w \in Views
      PROVE  views'[w] = IF w = v THEN [header |-> TRUE, expired |-> FALSE, total |-> total,
                                        items |-> 0 .. total - 1, projection |-> Projection(total)]
                         ELSE IF w \in Batch THEN Deleted(w) ELSE views[w]
  BY DEF CreateInFlightSnapshotCursor
<1>3. ASSUME NEW w \in Views
      PROVE  /\ ViewTyped(views'[w])
             /\ views'[w].header /\ ~ views'[w].expired => WholeView(views'[w])
             /\ ~ views'[w].header => BareView(views'[w])
  <2>1. CASE w = v
    <3> DEFINE row == [header |-> TRUE, expired |-> FALSE, total |-> total,
                       items |-> 0 .. total - 1, projection |-> Projection(total)]
    <3>1. row.header /\ row.items = 0 .. row.total - 1 /\ row.projection = Projection(row.total) /\ ViewTyped(row)
      BY <1>1 DEF ViewTyped
    <3>2. views'[w] = row
      BY <1>2, <2>1
    <3> QED
      BY <3>1, <3>2 DEF WholeView
  <2>2. CASE w # v /\ w \in Batch
    BY <1>2, <2>2, DeletedView DEF Batch
  <2>3. CASE w # v /\ w \notin Batch
    BY <1>2, <2>3
  <2> QED
    BY <2>1, <2>2, <2>3
<1>4. DOMAIN views' = Views /\ readers' = readers
  BY DEF CreateInFlightSnapshotCursor
<1>5. ASSUME NEW r \in Readers, readers[r].phase # "idle"
      PROVE  views'[readers[r].view] = views[readers[r].view]
  <2>1. readers[r].view \in Views \ Batch /\ readers[r].view # v
    BY <1>5 DEF CreateInFlightSnapshotCursor, BatchLocked, Created, WholeView
  <2> QED
    BY <1>2, <2>1
<1> QED
  BY <1>3, <1>4, <1>5

LEMMA ExpireViewInv ==
    ASSUME CursorInv, NEW v \in Views, Expire(v)
    PROVE  CursorInv'
<1> USE DEF CursorInv
<1>1. ASSUME NEW w \in Views
      PROVE  /\ views'[w].total = views[w].total /\ views'[w].header = views[w].header
             /\ views'[w].items = views[w].items /\ views'[w].projection = views[w].projection
             /\ ViewTyped(views'[w])
             /\ views'[w].expired = (IF w = v THEN TRUE ELSE views[w].expired)
  BY DEF Expire, ViewTyped
<1>2. DOMAIN views' = Views /\ readers' = readers
  BY DEF Expire
<1>3. ASSUME NEW w \in Views
      PROVE  (WholeView(views[w]) => WholeView(views'[w])) /\ (BareView(views[w]) => BareView(views'[w]))
  BY <1>1 DEF WholeView, BareView
<1> QED
  BY <1>1, <1>2, <1>3

LEMMA ReaderStepInv ==
    ASSUME CursorInv, NEW r \in Readers,
           \/ \E v \in Views, offset \in 0 .. Max(Totals) : LockPage(r, v, offset)
           \/ ReadDetails(r) \/ ReadProjection(r) \/ EndPage(r)
    PROVE  CursorInv'
<1> USE DEF CursorInv
<1>1. ASSUME NEW row, row \in ReaderRecords, readers' = [readers EXCEPT ![r] = row], UNCHANGED views,
             row.phase # "idle" => row.view \in Views /\ WholeView(views[row.view]) /\ row.phase # "incomplete"
      PROVE  CursorInv'
  <2>1. readers' \in [Readers -> ReaderRecords]
    BY <1>1
  <2>2. \A q \in Readers : readers'[q] = IF q = r THEN row ELSE readers[q]
    BY <1>1
  <2> QED
    BY <1>1, <2>1, <2>2
<1>2. CASE \E v \in Views, offset \in 0 .. Max(Totals) : LockPage(r, v, offset)
  <2>1. PICK v \in Views, offset \in 0 .. Max(Totals) : LockPage(r, v, offset)
    BY <1>2
  <2> DEFINE row == [view |-> v, offset |-> offset, phase |-> "locked"]
  <2>2. row \in ReaderRecords /\ row.phase # "incomplete" /\ row.view = v
    BY DEF ReaderRecords, ReaderPhases
  <2>3. readers' = [readers EXCEPT ![r] = row] /\ UNCHANGED views /\ WholeView(views[v])
    BY <2>1 DEF LockPage
  <2> HIDE DEF row
  <2> QED
    BY <1>1, <2>2, <2>3
<1>3. ASSUME NEW phase \in {"done", "details"}, readers' = [readers EXCEPT ![r].phase = phase],
             readers[r].phase # "idle", UNCHANGED views
      PROVE  CursorInv'
  <2> DEFINE row == [readers[r] EXCEPT !.phase = phase]
  <2>1. row \in ReaderRecords /\ row.phase # "incomplete" /\ row.view = readers[r].view
    BY DEF ReaderRecords, ReaderPhases
  <2>2. readers' = [readers EXCEPT ![r] = row]
    BY <1>3
  <2> HIDE DEF row
  <2> QED
    BY <1>1, <1>3, <2>1, <2>2
<1>4. CASE ReadDetails(r)
  <2> DEFINE v == readers[r].view
             offset == readers[r].offset
             n == PageCount(views[v].total, offset)
  <2>1. v \in Views /\ offset \in Nat /\ WholeView(views[v]) /\ readers[r].phase # "idle"
    BY <1>4 DEF ReadDetails, ReaderRecords
  <2>2. PageItems(v, offset) = offset .. offset + n - 1
    <3>1. views[v].total \in Nat /\ views[v].items = 0 .. views[v].total - 1
      BY <2>1 DEF WholeView, ViewTyped
    <3> HIDE DEF v, offset
    <3> QED
      BY <2>1, <3>1, WholePage
  <2>3. readers' = [readers EXCEPT ![r].phase = IF n = 0 THEN "done" ELSE "details"] /\ UNCHANGED views
    BY <1>4, <2>2 DEF ReadDetails
  <2> HIDE DEF v, offset, n
  <2> QED
    BY <1>3, <2>1, <2>3
<1>5. CASE ReadProjection(r)
  <2>1. readers' = [readers EXCEPT ![r].phase = "done"] /\ UNCHANGED views /\ readers[r].phase # "idle"
    BY <1>5 DEF ReadProjection, WholeView
  <2> QED
    BY <1>3, <2>1
<1>6. CASE EndPage(r)
  <2>1. NoReader \in ReaderRecords /\ NoReader.phase = "idle"
    BY DEF NoReader, ReaderRecords, ReaderPhases
  <2> QED
    BY <1>1, <1>6, <2>1 DEF EndPage
<1> QED
  BY <1>2, <1>4, <1>5, <1>6

LEMMA CursorNextInv == CursorInv /\ [CursorNext]_cursorVars => CursorInv'
<1> SUFFICES ASSUME CursorInv, [CursorNext]_cursorVars PROVE CursorInv'
  OBVIOUS
<1>1. CASE \E v \in Views : Expire(v) \/ \E total \in Totals : CreateInFlightSnapshotCursor(v, total)
  BY <1>1, ExpireViewInv, CreateViewInv
<1>2. CASE \E r \in Readers :
            \/ \E v \in Views, offset \in 0 .. Max(Totals) : LockPage(r, v, offset)
            \/ ReadDetails(r) \/ ReadProjection(r) \/ EndPage(r)
  BY <1>2, ReaderStepInv
<1>3. CASE UNCHANGED cursorVars
  BY <1>3 DEF cursorVars, CursorInv
<1> QED
  BY <1>1, <1>2, <1>3 DEF CursorNext

\* A page never misses a row, however many requests read, expire and clean up views at a time,
\* and a cleanup interrupted by its limits leaves no rows that nothing points to any more
\* (ReadInFlightSnapshotCursorPage, cleanupExpiredInFlightSnapshotCursors).
THEOREM PagesStayWhole == CursorSpec => []PagesAreKept
<1>1. CursorInv => PagesAreKept
  <2> SUFFICES ASSUME CursorInv PROVE PagesAreKept
    OBVIOUS
  <2>1. PagesAreWhole
    BY DEF CursorInv, PagesAreWhole
  <2>2. ASSUME NEW v \in Views, ~ views[v].header PROVE ~ (Rows(v) > 0)
    <3>1. Cardinality(views[v].items) = 0 /\ views[v].projection = 0
      BY <2>2, FS_EmptySet DEF CursorInv, BareView
    <3> QED
      BY <3>1 DEF Rows
  <2> QED
    BY <2>1, <2>2 DEF PagesAreKept, NoOrphanRows
<1> QED
  BY <1>1, CursorInitInv, CursorNextInv, PTL DEF CursorSpec

-------------------------------------------------------------------------------
(***************************************************************************)
(* Charges.  Every bucket is a natural number of tokens, and the buckets   *)
(* carved out of one total sum up to it.                                   *)
(***************************************************************************)
SplitSpec == SplitInit /\ [][SplitNext]_splitVars

Priceable(b) == b.tokens \in Nat /\ b.price \in Nat
Priced(buckets) == {b \in buckets : b.tokens > 0}

LEMMA TimesNat == \A a, b \in Nat : a * b \in Nat
  OBVIOUS

LEMMA BucketAdds ==
    ASSUME NEW S, IsFiniteSet(S), \A b \in S : Priceable(b), NEW b, Priceable(b), b \notin S
    PROVE  /\ IsFiniteSet(S \cup {b}) /\ \A x \in S \cup {b} : Priceable(x)
           /\ PricedTokens(Priced(S \cup {b})) = PricedTokens(Priced(S)) + b.tokens
           /\ PricedCost(Priced(S \cup {b})) = PricedCost(Priced(S)) + b.tokens * b.price
           /\ PricedTokens(Priced(S)) \in Nat /\ PricedCost(Priced(S)) \in Nat
<1> DEFINE P == Priced(S)
           Q == Priced(S \cup {b})
           T(A) == [x \in A |-> x.tokens]
           C(A) == [x \in A |-> x.tokens * x.price]
<1>1. IsFiniteSet(S \cup {b}) /\ \A x \in S \cup {b} : Priceable(x)
  BY FS_AddElement
<1>2. IsFiniteSet(P) /\ IsFiniteSet(Q)
  BY <1>1, FS_Subset DEF Priced
<1>3. Q = IF b.tokens > 0 THEN P \cup {b} ELSE P
  BY DEF Priced
<1>4. b \notin P /\ \A x \in P \cup {b} : x.tokens \in Nat /\ x.price \in Nat /\ x.tokens * x.price \in Nat
  BY TimesNat DEF Priced, Priceable
<1>5. PricedTokens(P) = SumFunctionOnSet(T(P), P) /\ PricedTokens(Q) = SumFunctionOnSet(T(Q), Q)
      /\ PricedCost(P) = SumFunctionOnSet(C(P), P) /\ PricedCost(Q) = SumFunctionOnSet(C(Q), Q)
  BY DEF PricedTokens, PricedCost, SumFunction
<1> HIDE DEF P, Q
<1>6. SumFunctionOnSet(T(P), P) \in Nat /\ SumFunctionOnSet(C(P), P) \in Nat
  <2> DEFINE F == T(P)
             G == C(P)
  <2>1. \A x \in P : F[x] \in Nat /\ G[x] \in Nat
    BY <1>4
  <2> HIDE DEF F, G
  <2>2. SumFunctionOnSet(F, P) \in Nat /\ SumFunctionOnSet(G, P) \in Nat
    BY <1>2, <2>1, SumOfNaturals
  <2> QED
    BY <2>2 DEF F, G
<1>7. CASE b.tokens > 0
  <2> DEFINE F == T(P)
             G == T(Q)
             H == C(P)
             K == C(Q)
  <2>1. Q \ {b} = P /\ b \in Q
    BY <1>3, <1>4, <1>7
  <2>2. /\ \A x \in Q : G[x] \in Int /\ K[x] \in Int
        /\ \A x \in P : F[x] = G[x] /\ H[x] = K[x]
        /\ G[b] = b.tokens /\ K[b] = b.tokens * b.price
    BY <1>3, <1>4, <2>1
  <2> HIDE DEF F, G, H, K
  <2>3. SumFunctionOnSet(G, Q) = G[b] + SumFunctionOnSet(G, P) /\ SumFunctionOnSet(K, Q) = K[b] + SumFunctionOnSet(K, P)
    BY <1>2, <2>1, <2>2, SumTakesAny
  <2>4. SumFunctionOnSet(F, P) = SumFunctionOnSet(G, P) /\ SumFunctionOnSet(H, P) = SumFunctionOnSet(K, P)
    BY <1>2, <2>2, SumAgrees
  <2>5. SumFunctionOnSet(F, P) \in Nat /\ SumFunctionOnSet(H, P) \in Nat
    BY <1>6 DEF F, H
  <2>6. /\ SumFunctionOnSet(G, Q) = b.tokens + SumFunctionOnSet(F, P)
        /\ SumFunctionOnSet(K, Q) = b.tokens * b.price + SumFunctionOnSet(H, P)
    BY <2>2, <2>3, <2>4
  <2>7. b.tokens \in Nat /\ b.tokens * b.price \in Nat
    BY <1>4
  <2> DEFINE t == b.tokens
             c == b.tokens * b.price
  <2> HIDE DEF t, c
  <2>8. SumFunctionOnSet(G, Q) = SumFunctionOnSet(F, P) + t /\ SumFunctionOnSet(K, Q) = SumFunctionOnSet(H, P) + c
    BY <2>5, <2>6, <2>7 DEF t, c
  <2>9. PricedTokens(Q) = PricedTokens(P) + b.tokens /\ PricedCost(Q) = PricedCost(P) + b.tokens * b.price
    BY <1>5, <2>8 DEF t, c, F, G, H, K
  <2> QED
    BY <1>1, <1>5, <1>6, <2>9 DEF P, Q
<1>8. CASE ~ (b.tokens > 0)
  <2>1. b.tokens = 0 /\ b.price \in Nat
    BY <1>4, <1>8
  <2>2. b.tokens * b.price = 0
    BY <2>1
  <2>3. Q = P
    BY <1>3, <1>8
  <2>4. PricedTokens(P) = PricedTokens(P) + 0 /\ PricedCost(P) = PricedCost(P) + 0
    BY <1>5, <1>6
  <2> QED
    BY <1>1, <1>5, <1>6, <2>1, <2>2, <2>3, <2>4 DEF P, Q
<1> QED
  BY <1>7, <1>8

LEMMA NothingPriced == PricedTokens(Priced({})) = 0 /\ PricedCost(Priced({})) = 0
<1>1. Priced({}) = {}
  BY DEF Priced
<1> QED
  BY <1>1, EmptySum DEF PricedTokens, PricedCost, SumFunction

LEMMA ClampIs ==
    ASSUME NEW value \in Nat, NEW limit \in Nat
    PROVE  Clamp(value, limit) \in Nat /\ Clamp(value, limit) <= limit
<1>1. \E x \in {value, limit} : \A y \in {value, limit} : x <= y
  <2>1. CASE value <= limit
    BY <2>1
  <2>2. CASE ~ (value <= limit)
    BY <2>2
  <2> QED
    BY <2>1, <2>2
<1> QED
  BY <1>1 DEF Clamp, Min

LEMMA MinusIs ==
    ASSUME NEW a \in Nat, NEW b \in Nat
    PROVE  Minus(a, b) \in Nat
  BY DEF Minus

\* The media carved out of the uncached input are no more than it.
LEMMA InputModalitiesAre ==
    ASSUME NEW u \in [Fields -> Nat]
    PROVE  LET m == InputModalities(u)
           IN  m.image \in Nat /\ m.audio \in Nat /\ m.image + m.audio <= u["uncached"]
<1> DEFINE imageCached == Clamp(u["imageCacheRead"], u["cacheRead"])
           audioCached == Clamp(u["audioCacheRead"], u["cacheRead"] - imageCached)
           textCached == Clamp(u["cachedText"], u["cacheRead"] - imageCached - audioCached)
           InCache(raw, cached, others) ==
               /\ cached = 0 /\ u["cacheRead"] > 0 /\ u["textInput"] = 0
               /\ raw > u["uncached"] /\ raw <= Minus(u["cacheRead"], others)
           imageHeld == InCache(u["imageInput"], imageCached, audioCached + textCached)
           imageShare == IF imageHeld THEN u["imageInput"] ELSE imageCached
           rawImage == IF imageHeld THEN 0 ELSE Minus(u["imageInput"], imageCached)
           rawAudio == IF InCache(u["audioInput"], audioCached, imageShare + textCached) THEN 0
                       ELSE Minus(u["audioInput"], audioCached)
           budget == IF u["textInput"] > 0 /\ u["cachedText"] > 0 /\ u["textInput"] >= u["cachedText"]
                     THEN u["uncached"] - Clamp(u["textInput"] - u["cachedText"], u["uncached"])
                     ELSE u["uncached"]
           image == Clamp(rawImage, budget)
<1>1. \A f \in {"imageCacheRead", "audioCacheRead", "cacheRead", "uncached", "textInput", "cachedText", "imageInput", "audioInput"} :
         u[f] \in Nat
  BY DEF Fields, CanonicalBuckets, InputDetails
<1>2. imageCached \in Nat /\ imageCached <= u["cacheRead"]
  BY <1>1, ClampIs
<1>3. audioCached \in Nat
  <2> HIDE DEF imageCached
  <2>1. u["cacheRead"] - imageCached \in Nat
    BY <1>1, <1>2
  <2> QED
    BY <1>1, <2>1, ClampIs
<1>4. budget \in Nat /\ budget <= u["uncached"]
  <2>1. CASE u["textInput"] > 0 /\ u["cachedText"] > 0 /\ u["textInput"] >= u["cachedText"]
    <3> DEFINE text == u["textInput"] - u["cachedText"]
    <3>1. text \in Nat
      BY <1>1, <2>1
    <3> HIDE DEF text
    <3>2. Clamp(text, u["uncached"]) \in Nat /\ Clamp(text, u["uncached"]) <= u["uncached"]
      BY <1>1, <3>1, ClampIs
    <3>3. budget = u["uncached"] - Clamp(text, u["uncached"])
      BY <2>1 DEF text
    <3> QED
      BY <1>1, <3>2, <3>3
  <2>2. CASE ~ (u["textInput"] > 0 /\ u["cachedText"] > 0 /\ u["textInput"] >= u["cachedText"])
    <3>1. budget = u["uncached"]
      BY <2>2
    <3> QED
      BY <1>1, <3>1
  <2> QED
    BY <2>1, <2>2
<1>5. InputModalities(u) = [image |-> image, audio |-> Clamp(rawAudio, budget - image)]
  BY DEF InputModalities
<1>6. Minus(u["imageInput"], imageCached) \in Nat /\ Minus(u["audioInput"], audioCached) \in Nat
  <2> HIDE DEF imageCached, audioCached
  <2> QED
    BY <1>1, <1>2, <1>3, MinusIs
<1>7. rawImage \in Nat /\ rawAudio \in Nat
  <2> HIDE DEF InCache, imageCached, audioCached, textCached
  <2> QED
    BY <1>6
<1> HIDE DEF budget, rawImage, rawAudio
<1>8. image \in Nat /\ image <= budget
  BY <1>4, <1>7, ClampIs
<1> HIDE DEF image
<1>9. budget - image \in Nat
  BY <1>4, <1>8
<1>10. Clamp(rawAudio, budget - image) \in Nat /\ Clamp(rawAudio, budget - image) <= budget - image
  BY <1>7, <1>9, ClampIs
<1>11. u["uncached"] \in Nat
  BY <1>1
<1> DEFINE audio == Clamp(rawAudio, budget - image)
<1> HIDE DEF audio
<1>12. image \in Nat /\ audio \in Nat /\ image + audio <= u["uncached"]
  BY <1>4, <1>8, <1>10, <1>11 DEF audio
<1>13. InputModalities(u) = [image |-> image, audio |-> audio]
  BY <1>5 DEF audio
<1> QED
  BY <1>12, <1>13

LEMMA FourBucketsAdd ==
    ASSUME NEW S, IsFiniteSet(S), \A x \in S : Priceable(x),
           NEW a, NEW b, NEW c, NEW d, Priceable(a), Priceable(b), Priceable(c), Priceable(d),
           a \notin S, b \notin S \cup {a}, c \notin S \cup {a, b}, d \notin S \cup {a, b, c}
    PROVE  /\ IsFiniteSet(S \cup {a, b, c, d}) /\ \A x \in S \cup {a, b, c, d} : Priceable(x)
           /\ PricedTokens(Priced(S \cup {a, b, c, d})) = PricedTokens(Priced(S)) + (a.tokens + b.tokens + c.tokens + d.tokens)
           /\ PricedCost(Priced(S \cup {a, b, c, d}))
                = PricedCost(Priced(S)) + (a.tokens * a.price + b.tokens * b.price + c.tokens * c.price + d.tokens * d.price)
           /\ PricedTokens(Priced(S)) \in Nat /\ PricedCost(Priced(S)) \in Nat
<1> DEFINE A == S \cup {a}
           B == A \cup {b}
           C == B \cup {c}
           D == C \cup {d}
           T(X) == PricedTokens(Priced(X))
           K(X) == PricedCost(Priced(X))
<1>1. D = S \cup {a, b, c, d} /\ b \notin A /\ c \notin B /\ d \notin C
  OBVIOUS
<1>2. /\ IsFiniteSet(A) /\ \A x \in A : Priceable(x)
      /\ T(A) = T(S) + a.tokens /\ K(A) = K(S) + a.tokens * a.price
      /\ T(S) \in Nat /\ K(S) \in Nat
  BY BucketAdds
<1> HIDE DEF A
<1>3. /\ IsFiniteSet(B) /\ \A x \in B : Priceable(x)
      /\ T(B) = T(A) + b.tokens /\ K(B) = K(A) + b.tokens * b.price
  BY <1>1, <1>2, BucketAdds
<1> HIDE DEF B
<1>4. /\ IsFiniteSet(C) /\ \A x \in C : Priceable(x)
      /\ T(C) = T(B) + c.tokens /\ K(C) = K(B) + c.tokens * c.price
  BY <1>1, <1>3, BucketAdds
<1> HIDE DEF C
<1>5. /\ IsFiniteSet(D) /\ \A x \in D : Priceable(x)
      /\ T(D) = T(C) + d.tokens /\ K(D) = K(C) + d.tokens * d.price
  BY <1>1, <1>4, BucketAdds
<1> HIDE DEF D
<1>6. /\ a.tokens \in Nat /\ b.tokens \in Nat /\ c.tokens \in Nat /\ d.tokens \in Nat
      /\ a.tokens * a.price \in Nat /\ b.tokens * b.price \in Nat
      /\ c.tokens * c.price \in Nat /\ d.tokens * d.price \in Nat
  BY TimesNat DEF Priceable
<1>7. T(D) = T(S) + (a.tokens + b.tokens + c.tokens + d.tokens)
  <2> HIDE DEF T
  <2> QED
    BY <1>2, <1>3, <1>4, <1>5, <1>6
<1>8. K(D) = K(S) + (a.tokens * a.price + b.tokens * b.price + c.tokens * c.price + d.tokens * d.price)
  <2> DEFINE ka == a.tokens * a.price
             kb == b.tokens * b.price
             kc == c.tokens * c.price
             kd == d.tokens * d.price
  <2> HIDE DEF K
  <2>1. K(A) = K(S) + ka /\ K(B) = K(A) + kb /\ K(C) = K(B) + kc /\ K(D) = K(C) + kd
        /\ ka \in Nat /\ kb \in Nat /\ kc \in Nat /\ kd \in Nat /\ K(S) \in Nat
    BY <1>2, <1>3, <1>4, <1>5, <1>6
  <2> HIDE DEF ka, kb, kc, kd
  <2>2. K(D) = K(S) + (ka + kb + kc + kd)
    BY <2>1
  <2> QED
    BY <2>2 DEF ka, kb, kc, kd
<1> QED
  BY <1>1, <1>2, <1>5, <1>7, <1>8

LEMMA BucketIs ==
    ASSUME NEW name, NEW t \in Nat, NEW p \in Nat
    PROVE  /\ Priceable(Bucket(name, t, p)) /\ Bucket(name, t, p).name = name
           /\ Bucket(name, t, p).tokens = t /\ Bucket(name, t, p).price = p
  BY DEF Priceable, Bucket

\* Twelve buckets under different names charge the sum of what each charges.
LEMMA TwelveBuckets ==
    ASSUME NEW t \in [1 .. 12 -> Nat], NEW p \in [1 .. 12 -> Nat], NEW name,
           \A i, j \in 1 .. 12 : name[i] = name[j] => i = j
    PROVE  LET B(i) == Bucket(name[i], t[i], p[i])
               All == {B(1), B(2), B(3), B(4)} \cup {B(5), B(6), B(7), B(8)} \cup {B(9), B(10), B(11), B(12)}
           IN  /\ PricedTokens(Priced(All)) = (t[1] + t[2] + t[3] + t[4]) + (t[5] + t[6] + t[7] + t[8]) + (t[9] + t[10] + t[11] + t[12])
               /\ PricedCost(Priced(All))
                    = (t[1] * p[1] + t[2] * p[2] + t[3] * p[3] + t[4] * p[4])
                      + (t[5] * p[5] + t[6] * p[6] + t[7] * p[7] + t[8] * p[8])
                      + (t[9] * p[9] + t[10] * p[10] + t[11] * p[11] + t[12] * p[12])
<1> DEFINE B(i) == Bucket(name[i], t[i], p[i])
           Q1 == {B(1), B(2), B(3), B(4)}
           Q2 == Q1 \cup {B(5), B(6), B(7), B(8)}
           Q3 == Q2 \cup {B(9), B(10), B(11), B(12)}
           T(X) == PricedTokens(Priced(X))
           K(X) == PricedCost(Priced(X))
<1>1. \A i \in 1 .. 12 : Priceable(B(i)) /\ B(i).name = name[i] /\ B(i).tokens = t[i] /\ B(i).price = p[i]
                         /\ t[i] \in Nat /\ p[i] \in Nat /\ t[i] * p[i] \in Nat
  BY BucketIs, TimesNat
<1> HIDE DEF B
<1>2. \A i, j \in 1 .. 12 : B(i) = B(j) => i = j
  BY <1>1
<1>3. /\ IsFiniteSet({}) /\ T({}) = 0 /\ K({}) = 0 /\ {} \cup {B(1), B(2), B(3), B(4)} = Q1
      /\ B(2) # B(1) /\ B(3) \notin {B(1), B(2)} /\ B(4) \notin {B(1), B(2), B(3)}
  BY <1>2, NothingPriced, FS_EmptySet
<1>4. /\ IsFiniteSet(Q1) /\ \A x \in Q1 : Priceable(x)
      /\ T(Q1) = 0 + (B(1).tokens + B(2).tokens + B(3).tokens + B(4).tokens)
      /\ K(Q1) = 0 + (B(1).tokens * B(1).price + B(2).tokens * B(2).price + B(3).tokens * B(3).price + B(4).tokens * B(4).price)
  <2> DEFINE b1 == B(1)
             b2 == B(2)
             b3 == B(3)
             b4 == B(4)
             E == {}
  <2>1. /\ Priceable(b1) /\ Priceable(b2) /\ Priceable(b3) /\ Priceable(b4) /\ IsFiniteSet(E)
        /\ b1 \notin E /\ b2 \notin E \cup {b1} /\ b3 \notin E \cup {b1, b2} /\ b4 \notin E \cup {b1, b2, b3}
        /\ \A x \in E : Priceable(x)
    BY <1>1, <1>3
  <2>2. E \cup {b1, b2, b3, b4} = Q1 /\ T(E) = 0 /\ K(E) = 0
    BY <1>3
  <2> HIDE DEF b1, b2, b3, b4, E, Q1
  <2>3. /\ IsFiniteSet(E \cup {b1, b2, b3, b4}) /\ \A x \in E \cup {b1, b2, b3, b4} : Priceable(x)
        /\ T(E \cup {b1, b2, b3, b4}) = T(E) + (b1.tokens + b2.tokens + b3.tokens + b4.tokens)
        /\ K(E \cup {b1, b2, b3, b4}) = K(E) + (b1.tokens * b1.price + b2.tokens * b2.price + b3.tokens * b3.price + b4.tokens * b4.price)
    BY <2>1, FourBucketsAdd
  <2> QED
    BY <2>2, <2>3 DEF b1, b2, b3, b4
<1>5. \A i \in 5 .. 12 : B(i) \notin Q1
  BY <1>2
<1> HIDE DEF Q1
<1>6. /\ IsFiniteSet(Q2) /\ \A x \in Q2 : Priceable(x)
      /\ T(Q2) = T(Q1) + (B(5).tokens + B(6).tokens + B(7).tokens + B(8).tokens)
      /\ K(Q2) = K(Q1) + (B(5).tokens * B(5).price + B(6).tokens * B(6).price + B(7).tokens * B(7).price + B(8).tokens * B(8).price)
  <2> DEFINE b1 == B(5)
             b2 == B(6)
             b3 == B(7)
             b4 == B(8)
  <2>1. /\ Priceable(b1) /\ Priceable(b2) /\ Priceable(b3) /\ Priceable(b4)
        /\ b1 \notin Q1 /\ b2 \notin Q1 \cup {b1} /\ b3 \notin Q1 \cup {b1, b2} /\ b4 \notin Q1 \cup {b1, b2, b3}
    BY <1>1, <1>2, <1>5
  <2> HIDE DEF b1, b2, b3, b4
  <2>2. /\ IsFiniteSet(Q1 \cup {b1, b2, b3, b4}) /\ \A x \in Q1 \cup {b1, b2, b3, b4} : Priceable(x)
        /\ T(Q1 \cup {b1, b2, b3, b4}) = T(Q1) + (b1.tokens + b2.tokens + b3.tokens + b4.tokens)
        /\ K(Q1 \cup {b1, b2, b3, b4}) = K(Q1) + (b1.tokens * b1.price + b2.tokens * b2.price + b3.tokens * b3.price + b4.tokens * b4.price)
    BY <1>4, <2>1, FourBucketsAdd
  <2> QED
    BY <2>2 DEF b1, b2, b3, b4
<1>7. \A i \in 9 .. 12 : B(i) \notin Q2
  BY <1>2, <1>5
<1> HIDE DEF Q2
<1>8. /\ T(Q3) = T(Q2) + (B(9).tokens + B(10).tokens + B(11).tokens + B(12).tokens)
      /\ K(Q3) = K(Q2) + (B(9).tokens * B(9).price + B(10).tokens * B(10).price + B(11).tokens * B(11).price + B(12).tokens * B(12).price)
  <2> DEFINE b1 == B(9)
             b2 == B(10)
             b3 == B(11)
             b4 == B(12)
  <2>1. /\ Priceable(b1) /\ Priceable(b2) /\ Priceable(b3) /\ Priceable(b4)
        /\ b1 \notin Q2 /\ b2 \notin Q2 \cup {b1} /\ b3 \notin Q2 \cup {b1, b2} /\ b4 \notin Q2 \cup {b1, b2, b3}
    BY <1>1, <1>2, <1>7
  <2> HIDE DEF b1, b2, b3, b4
  <2>2. IsFiniteSet(Q2) /\ \A x \in Q2 : Priceable(x)
    BY <1>6
  <2>3. /\ IsFiniteSet(Q2 \cup {b1, b2, b3, b4}) /\ \A x \in Q2 \cup {b1, b2, b3, b4} : Priceable(x)
        /\ T(Q2 \cup {b1, b2, b3, b4}) = T(Q2) + (b1.tokens + b2.tokens + b3.tokens + b4.tokens)
        /\ K(Q2 \cup {b1, b2, b3, b4}) = K(Q2) + (b1.tokens * b1.price + b2.tokens * b2.price + b3.tokens * b3.price + b4.tokens * b4.price)
    BY <2>1, <2>2, FourBucketsAdd
  <2> QED
    BY <2>3 DEF b1, b2, b3, b4
<1> HIDE DEF Q3, T, K
<1>9. T(Q3) = (t[1] + t[2] + t[3] + t[4]) + (t[5] + t[6] + t[7] + t[8]) + (t[9] + t[10] + t[11] + t[12])
  BY <1>1, <1>4, <1>6, <1>8
<1>10. K(Q3) = (t[1] * p[1] + t[2] * p[2] + t[3] * p[3] + t[4] * p[4])
               + (t[5] * p[5] + t[6] * p[6] + t[7] * p[7] + t[8] * p[8])
               + (t[9] * p[9] + t[10] * p[10] + t[11] * p[11] + t[12] * p[12])
  <2> DEFINE k(i) == t[i] * p[i]
  <2>1. \A i \in 1 .. 12 : B(i).tokens * B(i).price = k(i) /\ k(i) \in Nat
    BY <1>1
  <2> HIDE DEF k
  <2>2. /\ K(Q1) = 0 + (k(1) + k(2) + k(3) + k(4)) /\ K(Q2) = K(Q1) + (k(5) + k(6) + k(7) + k(8))
        /\ K(Q3) = K(Q2) + (k(9) + k(10) + k(11) + k(12))
    BY <1>4, <1>6, <1>8, <2>1
  <2>3. K(Q3) = (k(1) + k(2) + k(3) + k(4)) + (k(5) + k(6) + k(7) + k(8)) + (k(9) + k(10) + k(11) + k(12))
    BY <2>1, <2>2
  <2> QED
    BY <2>3 DEF k
<1> QED
  BY <1>9, <1>10 DEF T, K, Q1, Q2, Q3, B

LEMMA Distributes ==
    \A a, b, c, d, p \in Nat :
        /\ (a + b) * p = a * p + b * p
        /\ (a + b + c) * p = a * p + b * p + c * p
        /\ (a + b + c + d) * p = a * p + b * p + c * p + d * p
  OBVIOUS

\* What each side of a charge comes to.
LEMMA ChargeAdds ==
    ASSUME NEW u \in [Fields -> Nat], splitPrice \in [PriceColumns -> Nat]
    PROVE  /\ PricedTokens(Priced(ChargeBuckets(u))) = TotalTokens(u)
           /\ (\A c \in ExtraPrices : splitPrice[c] = 0) =>
                PricedCost(Priced(ChargeBuckets(u)))
                    = u["uncached"] * splitPrice["input"] + u["cacheRead"] * splitPrice["cacheRead"]
                      + u["cacheWrite"] * (IF splitPrice["cacheWrite"] = 0 THEN splitPrice["input"] ELSE splitPrice["cacheWrite"])
                      + (u["reasoning"] + u["nonReasoning"]) * splitPrice["output"]
<1> DEFINE m == InputModalities(u)
           w30 == Clamp(u["write30m"], u["cacheWrite"])
           w1h == Clamp(u["write1h"], u["cacheWrite"] - w30)
           w12 == Clamp(u["write12h"], u["cacheWrite"] - w30 - w1h)
           w5 == u["cacheWrite"] - w30 - w1h - w12
           noWritePrice == splitPrice["cacheWrite"] = 0
           writePrice == IF noWritePrice THEN splitPrice["input"] ELSE splitPrice["cacheWrite"]
           image == Clamp(u["imageOutput"], u["nonReasoning"])
           audio == Clamp(u["audioOutput"], u["nonReasoning"] - image)
           text == u["nonReasoning"] - image - audio
           noReasoningPrice == splitPrice["reasoning"] = 0
           t == <<u["uncached"] - m.image - m.audio + (IF noWritePrice THEN w5 ELSE 0), m.image, m.audio, u["cacheRead"],
                  IF noWritePrice THEN 0 ELSE w5, w30, w1h, w12,
                  text + (IF noReasoningPrice THEN u["reasoning"] ELSE 0), IF noReasoningPrice THEN 0 ELSE u["reasoning"],
                  image, audio>>
           p == <<splitPrice["input"], PriceOr("imageInput", splitPrice["input"]),
                  PriceOr("audioInput", splitPrice["input"]), splitPrice["cacheRead"],
                  splitPrice["cacheWrite"], PriceOr("write30m", writePrice), PriceOr("write1h", writePrice),
                  PriceOr("write12h", PriceOr("write1h", PriceOr("write30m", writePrice))),
                  splitPrice["output"], PriceOr("reasoning", splitPrice["output"]),
                  PriceOr("imageOutput", splitPrice["output"]), PriceOr("audioOutput", splitPrice["output"])>>
           name == <<"input", "image_input", "audio_input", "cache_read",
                     "cache_write", "cache_write_30m", "cache_write_1h", "cache_write_12h",
                     "output", "reasoning", "image_output", "audio_output">>
           B(i) == Bucket(name[i], t[i], p[i])
           All == {B(1), B(2), B(3), B(4)} \cup {B(5), B(6), B(7), B(8)} \cup {B(9), B(10), B(11), B(12)}
<1>1. \A f \in {"uncached", "cacheRead", "cacheWrite", "reasoning", "nonReasoning",
                "write30m", "write1h", "write12h", "imageOutput", "audioOutput"} : u[f] \in Nat
  BY DEF Fields, CanonicalBuckets, WriteDetails, OutputDetails
<1>2. /\ \A c \in PriceColumns : splitPrice[c] \in Nat
      /\ ExtraPrices \subseteq PriceColumns /\ {"input", "output", "cacheRead", "cacheWrite"} \subseteq PriceColumns
  BY DEF PriceColumns
<1>3. m.image \in Nat /\ m.audio \in Nat /\ m.image + m.audio <= u["uncached"]
  BY InputModalitiesAre
<1>4. w30 \in Nat /\ w30 <= u["cacheWrite"]
  BY <1>1, ClampIs
<1>5. w1h \in Nat /\ w1h <= u["cacheWrite"] - w30
  <2> HIDE DEF w30
  <2>1. u["cacheWrite"] - w30 \in Nat
    BY <1>1, <1>4
  <2> QED
    BY <1>1, <2>1, ClampIs
<1>6. w12 \in Nat /\ w12 <= u["cacheWrite"] - w30 - w1h
  <2> HIDE DEF w30, w1h
  <2>1. u["cacheWrite"] - w30 - w1h \in Nat
    BY <1>1, <1>4, <1>5
  <2> QED
    BY <1>1, <2>1, ClampIs
<1>7. image \in Nat /\ image <= u["nonReasoning"]
  BY <1>1, ClampIs
<1>8. audio \in Nat /\ audio <= u["nonReasoning"] - image
  <2> HIDE DEF image
  <2>1. u["nonReasoning"] - image \in Nat
    BY <1>1, <1>7
  <2> QED
    BY <1>1, <2>1, ClampIs
<1>9. ChargeBuckets(u) = All
  <2>1. ChargeBuckets(u) =
          {Bucket("input", u["uncached"] - m.image - m.audio + (IF noWritePrice THEN w5 ELSE 0), splitPrice["input"]),
           Bucket("image_input", m.image, PriceOr("imageInput", splitPrice["input"])),
           Bucket("audio_input", m.audio, PriceOr("audioInput", splitPrice["input"])),
           Bucket("cache_read", u["cacheRead"], splitPrice["cacheRead"]),
           Bucket("cache_write", IF noWritePrice THEN 0 ELSE w5, splitPrice["cacheWrite"]),
           Bucket("cache_write_30m", w30, PriceOr("write30m", writePrice)),
           Bucket("cache_write_1h", w1h, PriceOr("write1h", writePrice)),
           Bucket("cache_write_12h", w12, PriceOr("write12h", PriceOr("write1h", PriceOr("write30m", writePrice)))),
           Bucket("output", text + (IF noReasoningPrice THEN u["reasoning"] ELSE 0), splitPrice["output"]),
           Bucket("reasoning", IF noReasoningPrice THEN 0 ELSE u["reasoning"], PriceOr("reasoning", splitPrice["output"])),
           Bucket("image_output", image, PriceOr("imageOutput", splitPrice["output"])),
           Bucket("audio_output", audio, PriceOr("audioOutput", splitPrice["output"]))}
    BY DEF ChargeBuckets
  <2> HIDE DEF m, w30, w1h, w12, w5, writePrice, image, audio, text, noWritePrice, noReasoningPrice
  <2> QED
    BY <2>1
<1> HIDE DEF m, w30, w1h, w12, image, audio
<1>10. w5 \in Nat /\ text \in Nat /\ u["uncached"] - m.image - m.audio \in Nat
  BY <1>1, <1>3, <1>4, <1>5, <1>6, <1>7, <1>8
<1>11. t \in [1 .. 12 -> Nat]
  <2> HIDE DEF w5, text, noWritePrice, noReasoningPrice
  <2>1. \A x \in {u["uncached"] - m.image - m.audio + (IF noWritePrice THEN w5 ELSE 0), m.image, m.audio, u["cacheRead"],
                  IF noWritePrice THEN 0 ELSE w5, w30, w1h, w12,
                  text + (IF noReasoningPrice THEN u["reasoning"] ELSE 0), IF noReasoningPrice THEN 0 ELSE u["reasoning"],
                  image, audio} : x \in Nat
    BY <1>1, <1>3, <1>4, <1>5, <1>6, <1>7, <1>8, <1>10
  <2> QED
    BY <2>1
<1>12. p \in [1 .. 12 -> Nat]
  <2> DEFINE F(c, x) == PriceOr(c, x)
  <2>1. \A c \in ExtraPrices, x \in Nat : F(c, x) \in Nat
    BY <1>2 DEF PriceOr
  <2>2. writePrice \in Nat /\ splitPrice["input"] \in Nat /\ splitPrice["output"] \in Nat
        /\ splitPrice["cacheRead"] \in Nat /\ splitPrice["cacheWrite"] \in Nat
    BY <1>2
  <2> HIDE DEF F, writePrice
  <2>3. F("write30m", writePrice) \in Nat /\ F("write1h", writePrice) \in Nat
        /\ F("write1h", F("write30m", writePrice)) \in Nat
        /\ F("write12h", F("write1h", F("write30m", writePrice))) \in Nat
        /\ F("imageInput", splitPrice["input"]) \in Nat /\ F("audioInput", splitPrice["input"]) \in Nat
        /\ F("reasoning", splitPrice["output"]) \in Nat /\ F("imageOutput", splitPrice["output"]) \in Nat
        /\ F("audioOutput", splitPrice["output"]) \in Nat
    BY <2>1, <2>2 DEF ExtraPrices
  <2>4. p = <<splitPrice["input"], F("imageInput", splitPrice["input"]),
              F("audioInput", splitPrice["input"]), splitPrice["cacheRead"],
              splitPrice["cacheWrite"], F("write30m", writePrice), F("write1h", writePrice),
              F("write12h", F("write1h", F("write30m", writePrice))),
              splitPrice["output"], F("reasoning", splitPrice["output"]),
              F("imageOutput", splitPrice["output"]), F("audioOutput", splitPrice["output"])>>
    BY DEF F
  <2> QED
    BY <2>2, <2>3, <2>4
<1>13. \A i, j \in 1 .. 12 : name[i] = name[j] => i = j
  OBVIOUS
<1> HIDE DEF t, p, name
<1>14. /\ PricedTokens(Priced(All)) = (t[1] + t[2] + t[3] + t[4]) + (t[5] + t[6] + t[7] + t[8]) + (t[9] + t[10] + t[11] + t[12])
       /\ PricedCost(Priced(All))
            = (t[1] * p[1] + t[2] * p[2] + t[3] * p[3] + t[4] * p[4])
              + (t[5] * p[5] + t[6] * p[6] + t[7] * p[7] + t[8] * p[8])
              + (t[9] * p[9] + t[10] * p[10] + t[11] * p[11] + t[12] * p[12])
  BY <1>11, <1>12, <1>13, TwelveBuckets
<1>15. PricedTokens(Priced(All)) = TotalTokens(u)
  <2>1. /\ t[1] = u["uncached"] - m.image - m.audio + (IF noWritePrice THEN w5 ELSE 0)
        /\ t[2] = m.image /\ t[3] = m.audio /\ t[4] = u["cacheRead"]
        /\ t[5] = (IF noWritePrice THEN 0 ELSE w5) /\ t[6] = w30 /\ t[7] = w1h /\ t[8] = w12
        /\ t[9] = text + (IF noReasoningPrice THEN u["reasoning"] ELSE 0)
        /\ t[10] = (IF noReasoningPrice THEN 0 ELSE u["reasoning"]) /\ t[11] = image /\ t[12] = audio
    BY DEF t
  <2>2. t[1] + t[5] = u["uncached"] - m.image - m.audio + w5
    BY <1>1, <1>3, <1>10, <2>1
  <2>3. t[9] + t[10] = text + u["reasoning"]
    BY <1>1, <1>10, <2>1
  <2>4. (t[1] + t[5]) + t[2] + t[3] + t[4] + t[6] + t[7] + t[8] + (t[9] + t[10]) + t[11] + t[12] = TotalTokens(u)
    BY <1>1, <1>3, <1>4, <1>5, <1>6, <1>7, <1>8, <2>1, <2>2, <2>3 DEF TotalTokens
  <2>5. \A i \in 1 .. 12 : t[i] \in Nat
    BY <1>11
  <2> QED
    BY <1>14, <2>4, <2>5
<1>16. ASSUME \A c \in ExtraPrices : splitPrice[c] = 0
       PROVE  PricedCost(Priced(All))
                = u["uncached"] * splitPrice["input"] + u["cacheRead"] * splitPrice["cacheRead"]
                  + u["cacheWrite"] * (IF splitPrice["cacheWrite"] = 0 THEN splitPrice["input"] ELSE splitPrice["cacheWrite"])
                  + (u["reasoning"] + u["nonReasoning"]) * splitPrice["output"]
  <2> DEFINE in == splitPrice["input"]
             out == splitPrice["output"]
             cr == splitPrice["cacheRead"]
             cw == splitPrice["cacheWrite"]
             x == u["uncached"]
             y == u["cacheRead"]
             w == u["cacheWrite"]
             r == u["reasoning"]
             n == u["nonReasoning"]
             i == m.image
             a == m.audio
  <2>1. \A c \in ExtraPrices : \A f : PriceOr(c, f) = f
    BY <1>16 DEF PriceOr
  <2>2. /\ in \in Nat /\ out \in Nat /\ cr \in Nat /\ cw \in Nat /\ x \in Nat /\ y \in Nat /\ w \in Nat
        /\ r \in Nat /\ n \in Nat /\ i \in Nat /\ a \in Nat /\ writePrice \in Nat
    BY <1>1, <1>2, <1>3
  <2>3. /\ p[1] = in /\ p[2] = in /\ p[3] = in /\ p[4] = cr /\ p[5] = cw
        /\ p[6] = writePrice /\ p[7] = writePrice /\ p[8] = writePrice
        /\ p[9] = out /\ p[10] = out /\ p[11] = out /\ p[12] = out
    <3> HIDE DEF writePrice
    <3> QED
      BY <2>1 DEF p, ExtraPrices
  <2>4. noReasoningPrice
    BY <1>16 DEF ExtraPrices
  <2>5. /\ t[1] = x - i - a + (IF noWritePrice THEN w5 ELSE 0)
        /\ t[2] = i /\ t[3] = a /\ t[4] = y
        /\ t[5] = (IF noWritePrice THEN 0 ELSE w5) /\ t[6] = w30 /\ t[7] = w1h /\ t[8] = w12
        /\ t[9] = text + r /\ t[10] = 0 /\ t[11] = image /\ t[12] = audio
    <3> HIDE DEF noWritePrice, w5, text
    <3> QED
      BY <2>4 DEF t
  <2>6. /\ x - i - a \in Nat /\ (x - i - a) + i + a = x
        /\ w5 \in Nat /\ w30 \in Nat /\ w1h \in Nat /\ w12 \in Nat /\ w5 + w30 + w1h + w12 = w
        /\ text \in Nat /\ image \in Nat /\ audio \in Nat /\ text + r + image + audio = r + n
    BY <1>3, <1>4, <1>5, <1>6, <1>7, <1>8, <1>10, <2>2
  <2> DEFINE z == x - i - a
             v == writePrice
  <2>7. /\ v \in Nat /\ z \in Nat
        /\ x * in = z * in + i * in + a * in
        /\ w * v = w5 * v + w30 * v + w1h * v + w12 * v
        /\ (r + n) * out = text * out + r * out + image * out + audio * out
        /\ (text + r) * out = text * out + r * out
    <3> HIDE DEF z, v, in, out, x, w, r, n, i, a, w5, text
    <3>1. v \in Nat /\ z \in Nat
      BY <2>2, <2>6 DEF v, z
    <3>2. x = z + i + a
      BY <2>6 DEF z
    <3>3. x * in = z * in + i * in + a * in
      BY <2>2, <3>1, <3>2, Distributes
    <3>4. w * v = w5 * v + w30 * v + w1h * v + w12 * v
      BY <2>6, <3>1, Distributes
    <3>5. (text + r + image + audio) * out = text * out + r * out + image * out + audio * out
      BY <2>2, <2>6, Distributes
    <3>6. (text + r) * out = text * out + r * out
      BY <2>2, <2>6, Distributes
    <3> QED
      BY <2>6, <3>1, <3>3, <3>4, <3>5, <3>6
  <2>8. CASE noWritePrice
    <3>1. v = in /\ t[1] = z + w5 /\ t[5] = 0
      BY <2>5, <2>8
    <3>2. PricedCost(Priced(All)) = ((z + w5) * in + i * in + a * in + y * cr) + (0 * cw + w30 * v + w1h * v + w12 * v)
                              + ((text + r) * out + 0 * out + image * out + audio * out)
      <4> HIDE DEF z, v, in, out, x, w, r, n, i, a, w5, text, All
      <4> QED
        BY <1>14, <2>3, <2>5, <3>1 DEF v
    <3>3. (z + w5) * in = z * in + w5 * in /\ 0 * cw = 0 /\ 0 * out = 0
      <4> HIDE DEF z, in, out, cw, w5
      <4> QED
        BY <2>2, <2>6, <2>7, Distributes
    <3>4. PricedCost(Priced(All)) = x * in + y * cr + w * v + (r + n) * out
      <4> DEFINE q1 == z * in
                 q2 == w5 * in
                 q3 == i * in
                 q4 == a * in
                 q5 == y * cr
                 q6 == w30 * v
                 q7 == w1h * v
                 q8 == w12 * v
                 q9 == text * out
                 q10 == r * out
                 q11 == image * out
                 q12 == audio * out
      <4> HIDE DEF z, v, in, out, x, w, r, n, i, a, w5, text, All, y, cr, cw
      <4>1. /\ q1 \in Nat /\ q2 \in Nat /\ q3 \in Nat /\ q4 \in Nat /\ q5 \in Nat /\ q6 \in Nat
            /\ q7 \in Nat /\ q8 \in Nat /\ q9 \in Nat /\ q10 \in Nat /\ q11 \in Nat /\ q12 \in Nat
        BY <2>2, <2>6, <2>7, TimesNat
      <4>2. PricedCost(Priced(All)) = ((q1 + q2) + q3 + q4 + q5) + (0 + q6 + q7 + q8) + ((q9 + q10) + 0 + q11 + q12)
        BY <2>7, <3>2, <3>3
      <4>3. /\ x * in = q1 + q3 + q4 /\ w * v = q2 + q6 + q7 + q8 /\ (r + n) * out = q9 + q10 + q11 + q12
        BY <2>7, <3>1
      <4> HIDE DEF q1, q2, q3, q4, q6, q7, q8, q9, q10, q11, q12
      <4>4. PricedCost(Priced(All)) = (q1 + q3 + q4) + q5 + (q2 + q6 + q7 + q8) + (q9 + q10 + q11 + q12)
        <5> HIDE DEF q5
        <5> QED
          BY <4>1, <4>2
      <4> QED
        BY <4>3, <4>4
    <3> QED
      BY <2>8, <3>1, <3>4
  <2>9. CASE ~noWritePrice
    <3>1. v = cw /\ t[1] = z + 0 /\ t[5] = w5
      BY <2>5, <2>9
    <3>2. PricedCost(Priced(All)) = ((z + 0) * in + i * in + a * in + y * cr) + (w5 * cw + w30 * v + w1h * v + w12 * v)
                              + ((text + r) * out + 0 * out + image * out + audio * out)
      <4> HIDE DEF z, v, in, out, x, w, r, n, i, a, w5, text, All
      <4> QED
        BY <1>14, <2>3, <2>5, <3>1 DEF v
    <3>3. (z + 0) * in = z * in /\ 0 * out = 0
      <4> HIDE DEF z, in, out
      <4> QED
        BY <2>2, <2>6, <2>7
    <3>4. PricedCost(Priced(All)) = x * in + y * cr + w * v + (r + n) * out
      <4> DEFINE q1 == z * in
                 q2 == w5 * cw
                 q3 == i * in
                 q4 == a * in
                 q5 == y * cr
                 q6 == w30 * v
                 q7 == w1h * v
                 q8 == w12 * v
                 q9 == text * out
                 q10 == r * out
                 q11 == image * out
                 q12 == audio * out
      <4> HIDE DEF z, v, in, out, x, w, r, n, i, a, w5, text, All, y, cr, cw
      <4>1. /\ q1 \in Nat /\ q2 \in Nat /\ q3 \in Nat /\ q4 \in Nat /\ q5 \in Nat /\ q6 \in Nat
            /\ q7 \in Nat /\ q8 \in Nat /\ q9 \in Nat /\ q10 \in Nat /\ q11 \in Nat /\ q12 \in Nat
        BY <2>2, <2>6, <2>7, TimesNat
      <4>2. PricedCost(Priced(All)) = (q1 + q3 + q4 + q5) + (q2 + q6 + q7 + q8) + ((q9 + q10) + 0 + q11 + q12)
        BY <2>7, <3>2, <3>3
      <4>3. /\ x * in = q1 + q3 + q4 /\ w * v = q2 + q6 + q7 + q8 /\ (r + n) * out = q9 + q10 + q11 + q12
        BY <2>7, <3>1
      <4> HIDE DEF q1, q2, q3, q4, q6, q7, q8, q9, q10, q11, q12
      <4>4. PricedCost(Priced(All)) = (q1 + q3 + q4) + q5 + (q2 + q6 + q7 + q8) + (q9 + q10 + q11 + q12)
        <5> HIDE DEF q5
        <5> QED
          BY <4>1, <4>2
      <4> QED
        BY <4>3, <4>4
    <3> QED
      BY <2>9, <3>1, <3>4
  <2> QED
    BY <2>8, <2>9
<1> QED
  <2> HIDE DEF All
  <2> QED
    BY <1>9, <1>15, <1>16

LEMMA SameBuckets ==
    ASSUME splitUsage' = splitUsage, splitPrice' = splitPrice
    PROVE  ChargeBuckets(splitUsage)' = ChargeBuckets(splitUsage)
  BY DEF ChargeBuckets, PriceOr

\* The record and the price stay what they were, and the charge is all of the record's buckets.
SplitInv ==
    /\ splitUsage \in [Fields -> Nat]
    /\ splitPrice \in [PriceColumns -> Nat]
    /\ splitCost = {} \/ splitCost = Priced(ChargeBuckets(splitUsage))

\* A charge prices every token once, and details without a price cost nothing extra.
THEOREM ChargesAreExact == SplitSpec => []ChargeIsExact
<1>1. SplitInit => SplitInv
  <2>1. UsageRecords \subseteq [Fields -> Nat]
    <3>1. \A fields : Varying(fields) \subseteq [Fields -> Nat]
      <4> SUFFICES ASSUME NEW fields, NEW v \in [fields -> TokenCounts]
                   PROVE  [f \in Fields |-> IF f \in fields THEN v[f] ELSE 1] \in [Fields -> Nat]
        BY DEF Varying
      <4>1. \A f \in fields : v[f] \in Nat
        BY SplitAssumption
      <4> HIDE DEF Fields
      <4> QED
        BY <4>1
    <3> QED
      BY <3>1 DEF UsageRecords
  <2>2. Prices \subseteq [PriceColumns -> Nat]
    <3>1. BasePrice["input"] \in Nat /\ BasePrice["output"] \in Nat /\ BasePrice["cacheRead"] \in Nat
      BY DEF BasePrice
    <3>2. \A c \in PriceColumns : c = "cacheWrite" \/ c \in ExtraPrices \/ BasePrice[c] \in Nat
      BY <3>1 DEF PriceColumns
    <3> SUFFICES ASSUME NEW w \in {0, 3}, NEW x \in {0, 7}
                 PROVE  [c \in PriceColumns |-> IF c = "cacheWrite" THEN w ELSE IF c \in ExtraPrices THEN x ELSE BasePrice[c]]
                          \in [PriceColumns -> Nat]
      BY DEF Prices
    <3> QED
      BY <3>2
  <2> QED
    BY <2>1, <2>2 DEF SplitInit, SplitInv
<1>2. SplitInv /\ [SplitNext]_splitVars => SplitInv'
  <2> SUFFICES ASSUME SplitInv, [SplitNext]_splitVars PROVE SplitInv'
    OBVIOUS
  <2>1. CASE ComputeCharge
    <3>1. splitUsage' = splitUsage /\ splitPrice' = splitPrice /\ splitCost' = Priced(ChargeBuckets(splitUsage))
      BY <2>1 DEF ComputeCharge, Priced
    <3>2. ChargeBuckets(splitUsage)' = ChargeBuckets(splitUsage)
      BY <3>1, SameBuckets
    <3> QED
      BY <3>1, <3>2 DEF SplitInv, Priced
  <2>2. CASE UNCHANGED splitVars
    <3>1. splitUsage' = splitUsage /\ splitPrice' = splitPrice /\ splitCost' = splitCost
      BY <2>2 DEF splitVars
    <3>2. ChargeBuckets(splitUsage)' = ChargeBuckets(splitUsage)
      BY <3>1, SameBuckets
    <3> QED
      BY <3>1, <3>2 DEF SplitInv, Priced
  <2> QED
    BY <2>1, <2>2 DEF SplitNext
<1>3. SplitInv => ChargeIsExact
  <2> SUFFICES ASSUME SplitInv, splitCost # {} PROVE ChargeIsExact
    BY DEF ChargeIsExact, EveryTokenPricedOnce, DetailsCostNothingExtra
  <2> DEFINE u == splitUsage
  <2>1. splitCost = Priced(ChargeBuckets(u)) /\ u \in [Fields -> Nat] /\ splitPrice \in [PriceColumns -> Nat]
    BY DEF SplitInv
  <2>2. /\ PricedTokens(Priced(ChargeBuckets(u))) = TotalTokens(u)
        /\ (\A c \in ExtraPrices : splitPrice[c] = 0) =>
             PricedCost(Priced(ChargeBuckets(u)))
                 = u["uncached"] * splitPrice["input"] + u["cacheRead"] * splitPrice["cacheRead"]
                   + u["cacheWrite"] * (IF splitPrice["cacheWrite"] = 0 THEN splitPrice["input"] ELSE splitPrice["cacheWrite"])
                   + (u["reasoning"] + u["nonReasoning"]) * splitPrice["output"]
    <3> HIDE DEF u
    <3> QED
      BY <2>1, ChargeAdds
  <2> QED
    BY <2>1, <2>2 DEF ChargeIsExact, EveryTokenPricedOnce, DetailsCostNothingExtra
<1> QED
  BY <1>1, <1>2, <1>3, PTL DEF SplitSpec
===============================================================================
