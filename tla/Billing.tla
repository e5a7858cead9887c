-------------------------------- MODULE Billing --------------------------------
(***************************************************************************)
(* Usage accounting: CPA nodes report what a request consumed, at least    *)
(* once and in any order; Home stores each report once, charges the owner  *)
(* of the API key and debits the credits (respserver/push/usage.go,        *)
(* usage.go, billing.go).  Requests are admitted against the credits and a *)
(* spending limit per time window (user_period_limit.go).                  *)
(*                                                                         *)
(* One user, one API key, one of the four windows: users and windows are   *)
(* handled independently of each other.  Money is counted in units, time   *)
(* in ticks; a calendar window starts at the multiples of its length.      *)
(***************************************************************************)
EXTENDS Integers, FiniteSets, FiniteSetsExt, Sequences

CONSTANTS
    Executions,    \* requests, each with one execution id
    Deliveries,    \* concurrent transactions of Home processes
    WindowLength,  \* ticks a window lasts
    MaxBillTime,   \* bound: the clock
    MaxAdmin       \* bound: actions of administrators

ASSUME BillingAssumption ==
    /\ IsFiniteSet(Executions) /\ WindowLength \in Nat \ {0}
    /\ MaxBillTime \in Nat /\ MaxAdmin \in Nat

VARIABLES
    billNow,      \* the clock
    billUser,     \* the user row
    billOwned,    \* the API key has an owner (api_key.user_id)
    billRequest,  \* each request: phase, time stamp and whether it is billable
    billTx,       \* what each transaction has read so far
    usageRows,    \* table usage: the execution ids stored, in order
    charges,      \* table billing_charge: <<>> or <<[amount, at, owned]>> per execution (payload_hash is unique)
    booked,       \* sum of balance_after - balance_before over all ledger rows
    billAdmin     \* administrator actions so far

billVars == <<billNow, billUser, billOwned, billRequest, billTx, usageRows, charges, booked, billAdmin>>

NoLimit == -1
NoTime == 0
InitialCredits == 2
WindowModes == {"first_use", "sliding", "calendar"}
NoTx == [kind |-> "none"]

BillingInit ==
    /\ billNow = 1 /\ billOwned \in BOOLEAN /\ billAdmin = 0
    /\ billUser \in [credits : {InitialCredits}, unlimited : {FALSE}, deleted : {FALSE}, multiplier : {1},
                     limit : {NoLimit, 1}, mode : WindowModes, start : {NoTime}, epoch : {NoTime}]
    /\ billRequest = [e \in Executions |-> [phase |-> "idle", at |-> NoTime, billable |-> FALSE]]
    /\ billTx = [d \in Deliveries |-> NoTx]
    /\ usageRows = <<>> /\ charges = [e \in Executions |-> <<>>] /\ booked = 0

(***************************************************************************)
(* evaluateUserPeriodWindows: the window at a time, and what it has used.  *)
(***************************************************************************)
FirstUseActive(u, t) == u.start # NoTime /\ t < u.start + WindowLength
WindowActive(u, t) == u.mode # "first_use" \/ FirstUseActive(u, t)
WindowLower(u, t) ==
    CASE u.mode = "sliding" -> t - WindowLength
      [] u.mode = "calendar" -> (t \div WindowLength) * WindowLength
      [] OTHER -> u.start
ChargedSince(since) ==
    MapThenSumSet(LAMBDA e : charges[e][1].amount,
                  {e \in Executions : charges[e] # <<>> /\ charges[e][1].owned /\ charges[e][1].at >= since})
WindowUsed(u, t) ==
    IF WindowActive(u, t) THEN ChargedSince(Max({WindowLower(u, t), u.epoch})) ELSE 0
LimitExceeded(u, t) == u.limit # NoLimit /\ (WindowUsed(u, t) >= u.limit \/ u.limit = 0)

(* A first-use window opens on a charge that finds none active. *)
NeedOpen(u, t) == u.limit # NoLimit /\ ~FirstUseActive(u, t)

OpenFirstUseWindow(u, t) ==
    IF u.mode = "first_use" /\ NeedOpen(u, t) THEN [u EXCEPT !.start = t] ELSE u

(* ensureAPIKeyUserBillingAllowed, at dispatch. *)
BillingAllowed ==
    billOwned => /\ ~billUser.deleted
                 /\ billUser.unlimited \/ billUser.credits > 0
                 /\ ~LimitExceeded(billUser, billNow)

DispatchRequest(e) ==
    /\ billRequest[e].phase = "idle" /\ BillingAllowed
    /\ billRequest' = [billRequest EXCEPT ![e].phase = "running", ![e].at = billNow]
    /\ UNCHANGED <<billNow, billUser, billOwned, billTx, usageRows, charges, booked, billAdmin>>

(* The node finishes a request and has a usage payload to report; a failed   *)
(* request that consumed nothing and one without billable activity cost      *)
(* nothing.                                                                  *)
FinishRequest(e) ==
    /\ billRequest[e].phase = "running"
    /\ \E b \in BOOLEAN : billRequest' = [billRequest EXCEPT ![e].phase = "reported", ![e].billable = b]
    /\ UNCHANGED <<billNow, billUser, billOwned, billTx, usageRows, charges, booked, billAdmin>>

(***************************************************************************)
(* AppendUsageWithRuntimeOutcome: a transaction.  It takes the advisory    *)
(* lock of the payload's key, looks for a stored row, reads the key's      *)
(* owner and the multiplier, and then, under the lock of the user row,     *)
(* opens windows, debits and commits.                                      *)
(***************************************************************************)
UsageLockFree(e) == \A d \in Deliveries : billTx[d].kind = "usage" => billTx[d].exec # e

StoredUsage(e) == \E i \in DOMAIN usageRows : usageRows[i] = e

DeliverUsage(d, e) ==
    /\ billTx[d] = NoTx /\ billRequest[e].phase = "reported" /\ UsageLockFree(e)
    /\ ~StoredUsage(e)
    /\ billTx' = [billTx EXCEPT ![d] = [kind |-> "usage", exec |-> e, owned |-> billOwned,
                                        multiplier |-> IF billUser.deleted THEN 1 ELSE billUser.multiplier]]
    /\ UNCHANGED <<billNow, billUser, billOwned, billRequest, usageRows, charges, booked, billAdmin>>

(* Faulty variant: the delta is added to the credits that were read before. *)
CreditsFromRead(seen, delta) == seen + delta

(* billingApplyUserCreditDeltaTx: the delta is added inside the statement. *)
CreditsAfter(seen, delta) == billUser.credits + delta

(* An unlimited user's balance does not move; the ledger row then shows no difference. *)
Debited(u, seen, delta) == IF u.unlimited THEN u ELSE [u EXCEPT !.credits = CreditsAfter(seen, delta)]
Difference(u, delta) == IF u.unlimited THEN 0 ELSE delta

CreateBillingCharge(d) ==
    LET e == billTx[d].exec
        t == billRequest[e].at
        amount == billTx[d].multiplier
    IN IF ~billRequest[e].billable \/ charges[e] # <<>>
       THEN UNCHANGED <<billUser, charges, booked>>
       ELSE /\ charges' = [charges EXCEPT ![e] = <<[amount |-> IF billTx[d].owned THEN amount ELSE 1,
                                                    at |-> t, owned |-> billTx[d].owned]>>]
            /\ IF billTx[d].owned
               THEN /\ billUser' = Debited(OpenFirstUseWindow(billUser, t), billUser.credits, 0 - amount)
                    /\ booked' = booked + Difference(billUser, 0 - amount)
               ELSE UNCHANGED <<billUser, booked>>

(* The owner was deleted: the window step finds no user and the transaction fails. *)
OwnerGone(d) ==
    /\ billTx[d].owned /\ billUser.deleted
    /\ billRequest[billTx[d].exec].billable /\ charges[billTx[d].exec] = <<>>

CommitUsage(d) ==
    /\ billTx[d].kind = "usage" /\ ~OwnerGone(d)
    /\ CreateBillingCharge(d)
    /\ usageRows' = Append(usageRows, billTx[d].exec)
    /\ billTx' = [billTx EXCEPT ![d] = NoTx]
    /\ UNCHANGED <<billNow, billOwned, billRequest, billAdmin>>

(* A transaction rolls back: an error, a lost connection, the end of the      *)
(* process.  The node keeps its payload and may send it again.                *)
RollBack(d) ==
    /\ billTx[d] # NoTx
    /\ billTx' = [billTx EXCEPT ![d] = NoTx]
    /\ UNCHANGED <<billNow, billUser, billOwned, billRequest, usageRows, charges, booked, billAdmin>>

(***************************************************************************)
(* Administrators.                                                         *)
(***************************************************************************)
AdminStep == billAdmin < MaxAdmin /\ billAdmin' = billAdmin + 1

(* ApplyBillingBalanceRecord: read the user, then add the amount. *)
BeginBalance(d) ==
    /\ AdminStep /\ billTx[d] = NoTx /\ ~billUser.deleted
    /\ \E delta \in {-1, 1} :
          billTx' = [billTx EXCEPT ![d] = [kind |-> "balance", seen |-> billUser.credits, delta |-> delta]]
    /\ UNCHANGED <<billNow, billUser, billOwned, billRequest, usageRows, charges, booked>>

CommitBalance(d) ==
    /\ billTx[d].kind = "balance" /\ ~billUser.deleted
    /\ billUser' = Debited(billUser, billTx[d].seen, billTx[d].delta)
    /\ booked' = booked + Difference(billUser, billTx[d].delta)
    /\ billTx' = [billTx EXCEPT ![d] = NoTx]
    /\ UNCHANGED <<billNow, billOwned, billRequest, usageRows, charges, billAdmin>>

(* UpdateUser locks the row, changes the fields it is given and saves the whole  *)
(* row.  Credits set outright are booked by nobody: they are an adjustment.      *)
UpdateUser ==
    /\ AdminStep /\ ~billUser.deleted
    /\ \/ \E b \in BOOLEAN : billUser' = [billUser EXCEPT !.unlimited = b] /\ UNCHANGED booked
       \/ \E m \in {1, 2} : billUser' = [billUser EXCEPT !.multiplier = m] /\ UNCHANGED booked
       \/ \E m \in WindowModes, l \in {NoLimit, 1} :
             billUser' = [billUser EXCEPT !.mode = m, !.limit = l] /\ UNCHANGED booked
       \/ /\ billUser' = [billUser EXCEPT !.credits = InitialCredits]
          /\ booked' = booked + (InitialCredits - billUser.credits)
    /\ UNCHANGED <<billNow, billOwned, billRequest, billTx, usageRows, charges>>

DeleteUser ==
    /\ AdminStep /\ ~billUser.deleted
    /\ billUser' = [billUser EXCEPT !.deleted = TRUE]
    /\ UNCHANGED <<billNow, billOwned, billRequest, billTx, usageRows, charges, booked>>

(* ResetUserPeriodLimits, which clears the start and moves the usage epoch. *)
ResetUserPeriodLimits ==
    /\ AdminStep /\ ~billUser.deleted
    /\ \E reset \in {"counter", "window_only"} :
          billUser' = [billUser EXCEPT !.start = NoTime,
                                       !.epoch = IF reset = "counter" \/ billUser.mode # "first_use" THEN billNow ELSE @]
    /\ UNCHANGED <<billNow, billOwned, billRequest, billTx, usageRows, charges, booked>>

(* UpdateAPIKeyBindings: the key is given to a user that exists, or taken away. *)
AssignKey ==
    /\ AdminStep /\ billOwned' = ~billOwned
    /\ billOwned' => ~billUser.deleted
    /\ UNCHANGED <<billNow, billUser, billRequest, billTx, usageRows, charges, booked>>

BillTick ==
    /\ billNow < MaxBillTime /\ billNow' = billNow + 1
    /\ UNCHANGED <<billUser, billOwned, billRequest, billTx, usageRows, charges, booked, billAdmin>>

BillingNext ==
    \/ \E e \in Executions : DispatchRequest(e) \/ FinishRequest(e)
    \/ \E d \in Deliveries, e \in Executions : DeliverUsage(d, e)
    \/ \E d \in Deliveries : CommitUsage(d) \/ RollBack(d) \/ BeginBalance(d) \/ CommitBalance(d)
    \/ UpdateUser \/ DeleteUser \/ ResetUserPeriodLimits \/ AssignKey \/ BillTick

BillingSpec == BillingInit /\ [][BillingNext]_billVars

(***************************************************************************)
(* Properties.                                                             *)
(***************************************************************************)

(* The balance is what the ledger says: the initial credits and every         *)
(* difference a charge or a balance record booked (billing.go, the comment    *)
(* in billingApplyUserCreditDeltaTx on concurrent writers).  A charge and a   *)
(* recharge that overlap, and an administrator who switches the user to       *)
(* unlimited credits between them, must not lose either.                      *)
CreditsMatchLedger == billUser.credits = InitialCredits + booked

(* A payload that two nodes, or one node twice, deliver at the same time is   *)
(* stored once, whatever fails in between (usage.go, lockUsageIngestionTx).   *)
UsageStoredOnce ==
    \A i, j \in DOMAIN usageRows : usageRows[i] = usageRows[j] => i = j

(* A first-use window that is open is not replaced before it ends: a charge    *)
(* reported late, with a time before the window, gives the user no fresh       *)
(* budget (user_period_limit.go, openUserFirstUseWindowsOnChargeTx).           *)
WindowNotRestarted ==
    [][(billUser.start # NoTime /\ billUser'.start \notin {NoTime, billUser.start})
         => billUser'.start >= billUser.start + WindowLength]_billVars

(* The accounts are exact: every payload was charged once, and every charge    *)
(* and recharge is in the balance.                                             *)
AccountsAreExact == UsageStoredOnce /\ CreditsMatchLedger
================================================================================
