-------------------------------- MODULE Refresh --------------------------------
(***************************************************************************)
(* Token refresh of Codex credentials (refresh.go, auth/codex).            *)
(*                                                                         *)
(* A refresh claims a lease on the credential's row, spends the refresh    *)
(* grant at the provider outside any transaction, and applies the outcome  *)
(* to the row as it then is.  Grants rotate: spending one twice revokes    *)
(* the account.  The lease runs out, Homes crash, operators edit, replace  *)
(* and restore credentials meanwhile, and two rows may hold one grant, so  *)
(* a journal of grants is what keeps a grant from being spent again.       *)
(*                                                                         *)
(* There is no clock: a lease or backoff may run out at any step, so a     *)
(* backoff that is not set is one that runs out at once.                   *)
(***************************************************************************)
EXTENDS Naturals, FiniteSets, FiniteSetsExt

CONSTANTS
    Auths,       \* credentials (auth rows); all start with the same grant
    Crews,       \* bound: which refreshes <<home, auth>> occur together in a behaviour;
                 \* a Home refreshes a row once at a time (refreshLocks)
    MaxTokens,   \* bound: token pairs the provider issues; pair n has access n and grant n
    MaxFaults    \* bound: operator changes and crashes of Homes

ASSUME RefreshAssumption ==
    /\ \A crew \in Crews : \A w \in crew : w = <<w[1], w[2]>> /\ w[2] \in Auths
    /\ MaxTokens \in Nat \ {0} /\ MaxFaults \in Nat

Workers == UNION Crews
Homes == {w[1] : w \in Workers}
Grants == 1 .. MaxTokens
NoLease == <<>>  \* a lease id is random; the worker it was made for stands for it

VARIABLES
    row,        \* table auth: tokens, label, lease attribute, NextRefreshAfter, outcome fence
    journal,    \* table codex_refresh_journal, by grant
    worker,     \* the refresh in progress of each worker
    homesUp,    \* the running Homes
    issued,     \* token pairs issued by the provider
    submitted,  \* ghost: how often each grant was sent to the provider
    edited,     \* ghost: the label the operator gave each row last
    clobbered,  \* ghost: rows where an overtaken exchange stored its tokens all the same
    faults,
    refreshing  \* the crew of this behaviour

refreshVars == <<row, journal, worker, homesUp, issued, submitted, edited,
                 clobbered, faults, refreshing>>

(***************************************************************************)
(* A fence marks the row's own grant: the outcome of its exchange is       *)
(* unknown.  "observed" stages only saw somebody else's claim              *)
(* (isJournalObservationStage), "submitted" ones prove a submission.       *)
(***************************************************************************)
Absent == [kind |-> "absent"]
Pending(w) == [kind |-> "pending", owner |-> w]
Tokens(access, grant) == [kind |-> "tokens", access |-> access, grant |-> grant]
Unknown(fence) == [kind |-> "unknown", fence |-> fence]
Fenced == [kind |-> "stage"]
Denied == [kind |-> "rejected"]
NotSent == [kind |-> "notSent"]
NoOutcome == [kind |-> "none"]

FreshRow(fence) == [disabled |-> FALSE, access |-> 1, grant |-> 1, label |-> 0, lease |-> NoLease,
                    backoff |-> FALSE, fence |-> fence]
Leased(r) == [access |-> r.access, grant |-> r.grant, label |-> r.label, fence |-> r.fence]
IdleWorker == [pc |-> "idle", base |-> Leased(FreshRow("none")), outcome |-> NoOutcome,
               overtaken |-> FALSE]   \* ghost: the operator replaced the tokens since the claim

(***************************************************************************)
(* migrateCodexRefreshOutcomes, before a Home refreshes anything: a fence  *)
(* recorded before the journal existed gets its journal record.            *)
(***************************************************************************)
MigrationSkipped(j) == j
Migrated(j) ==
    [g \in Grants |->
        IF j[g] = Absent /\ \E a \in Auths : row[a].fence = "submitted" /\ row[a].grant = g
        THEN Fenced ELSE j[g]]

RefreshInit ==
    /\ \E legacy \in {"none", "submitted"} :
        \E old \in Auths :
            /\ row = [a \in Auths |-> FreshRow(IF a = old THEN legacy ELSE "none")]
            /\ submitted = [g \in Grants |-> IF g = 1 /\ legacy = "submitted" THEN 1 ELSE 0]
    /\ journal = [g \in Grants |-> Absent]
    /\ worker = [w \in Workers |-> IdleWorker]
    /\ homesUp = {} /\ issued = 1
    /\ edited = [a \in Auths |-> 0] /\ clobbered = {}
    /\ faults = 0 /\ refreshing \in Crews

StartHome(h) ==
    /\ h \notin homesUp
    /\ homesUp' = homesUp \cup {h}
    /\ journal' = Migrated(journal)
    /\ UNCHANGED <<row, worker, issued, submitted, edited, clobbered, faults, refreshing>>

(* What a Home had in memory is gone; rows and journal keep what was committed. *)
CrashHome(h) ==
    /\ h \in homesUp /\ faults < MaxFaults
    /\ faults' = faults + 1
    /\ homesUp' = homesUp \ {h}
    /\ worker' = [w \in Workers |-> IF w[1] = h THEN IdleWorker ELSE worker[w]]
    /\ UNCHANGED <<row, journal, issued, submitted, edited, clobbered, refreshing>>

-------------------------------------------------------------------------------
(* refreshLocalWithLock: the "refresh-claim" transaction. *)

ClaimLease(w) ==
    LET a == w[2]
    IN /\ w \in refreshing /\ w[1] \in homesUp /\ worker[w].pc = "idle"
       /\ ~row[a].disabled
       /\ ~row[a].backoff                   \* neither a live lease nor a retry backoff
       /\ row' = [row EXCEPT ![a].lease = w, ![a].backoff = TRUE]
       /\ worker' = [worker EXCEPT ![w] = [IdleWorker EXCEPT !.pc = "leased", !.base = Leased(row[a])]]
       /\ UNCHANGED <<journal, homesUp, issued, submitted, edited, clobbered, faults, refreshing>>

(* NextRefreshAfter passes. *)
BackoffElapses(a) ==
    /\ row[a].backoff
    /\ row' = [row EXCEPT ![a].backoff = FALSE]
    /\ UNCHANGED <<journal, worker, homesUp, issued, submitted, edited, clobbered, faults, refreshing>>

-------------------------------------------------------------------------------
(* RefreshTokens and journalRefresh: one exchange. *)

(* The end of the chain of receipts that starts at g. *)
ReceiptChain(g) ==
    LET last[x \in Grants] ==
            IF /\ journal[x].kind = "tokens" /\ journal[x].grant > x
               /\ journal[journal[x].grant] # Absent
            THEN last[journal[x].grant] ELSE x
    IN journal[last[g]]

(* What a caller learns from it; tokens may have expired meanwhile. *)
ReadReceipt(g) ==
    LET end == ReceiptChain(g)
    IN CASE end.kind = "pending"  -> {Unknown("observed")}
         [] end.kind = "stage"    -> {Unknown("submitted")}
         [] end.kind = "rejected" -> {Denied}
         [] end.kind = "tokens"   -> {end, Unknown("submitted")}

(* codexRefreshGroup: callers of one Home with one grant share the outcome. *)
Sharing(w) ==
    {w} \cup {x \in Workers : x[1] = w[1] /\ worker[x].pc = "joined" /\ worker[x].base.grant = worker[w].base.grant}
Return(w, outcome) ==
    worker' = [x \in Workers |-> IF x \in Sharing(w)
                                 THEN [worker[x] EXCEPT !.pc = "returned", !.outcome = outcome]
                                 ELSE worker[x]]

(***************************************************************************)
(* refreshCodex puts the row's own fence in the journal first              *)
(* (PreserveRefreshOutcome), then claims the grant there.  A claim whose   *)
(* answer is lost may or may not have been stored.                         *)
(***************************************************************************)
StartExchange(w) ==
    LET g == worker[w].base.grant
        j == IF worker[w].base.fence = "submitted" /\ journal[g] = Absent
             THEN [journal EXCEPT ![g] = Fenced] ELSE journal
    IN /\ worker[w].pc = "leased"
       /\ IF \E x \in Workers : x[1] = w[1] /\ worker[x].pc \in {"owner", "sent"} /\ worker[x].base.grant = g
          THEN /\ worker' = [worker EXCEPT ![w].pc = "joined"]
               /\ journal' = j
          ELSE \/ /\ j[g] = Absent
                  /\ journal' = [j EXCEPT ![g] = Pending(w)]
                  /\ worker' = [worker EXCEPT ![w].pc = "owner"]
               \/ /\ j[g] # Absent
                  /\ journal' = j
                  /\ \E outcome \in IF journal[g] = Absent THEN {Unknown("submitted")} ELSE ReadReceipt(g) :
                        Return(w, outcome)
       /\ UNCHANGED <<row, homesUp, issued, submitted, edited, clobbered, faults, refreshing>>

JournalClaimFails(w) ==
    LET g == worker[w].base.grant
    IN /\ worker[w].pc = "leased"
       /\ journal' \in {journal, [journal EXCEPT ![g] = IF @ = Absent THEN Pending(w) ELSE @]}
       /\ Return(w, Unknown("observed"))
       /\ UNCHANGED <<row, homesUp, issued, submitted, edited, clobbered, faults, refreshing>>

Submit(w) ==
    LET g == worker[w].base.grant
    IN /\ worker[w].pc = "owner"
       /\ submitted' = [submitted EXCEPT ![g] = @ + 1]
       /\ worker' = [worker EXCEPT ![w].pc = "sent"]
       /\ UNCHANGED <<row, journal, homesUp, issued, edited, clobbered, faults, refreshing>>

(* The connection was never made: the claim is released and the refresh    *)
(* tried again, or given up after the last attempt; or the release fails.  *)
NotSubmitted(w) ==
    LET g == worker[w].base.grant
    IN /\ worker[w].pc = "owner"
       /\ \/ /\ journal' = [journal EXCEPT ![g] = Absent]
             /\ worker' = [worker EXCEPT ![w].pc = "leased"] \/ Return(w, NotSent)
          \/ /\ journal' = journal
             /\ Return(w, Unknown("observed"))
       /\ UNCHANGED <<row, homesUp, issued, submitted, edited, clobbered, faults, refreshing>>

(* What the provider or the transport answers, as the receipt to be kept. *)
Receipts(g) ==
    (IF issued < MaxTokens THEN {Tokens(issued + 1, issued + 1), Tokens(issued + 1, g)} ELSE {})
        \cup {Denied, Fenced}

Respond(w) ==
    LET g == worker[w].base.grant
    IN /\ worker[w].pc = "sent"
       /\ \E receipt \in Receipts(g) :
            /\ issued' = IF receipt.kind = "tokens" THEN issued + 1 ELSE issued
            /\ \/ /\ journal' = [journal EXCEPT ![g] = receipt]
                  /\ Return(w, IF receipt = Fenced THEN Unknown("submitted") ELSE receipt)
               \/ /\ journal' = journal             \* RefreshComplete fails: the claim stays
                  /\ Return(w, Unknown("submitted"))
       /\ UNCHANGED <<row, homesUp, submitted, edited, clobbered, faults, refreshing>>

-------------------------------------------------------------------------------
(* finalizeRefreshLease: the outcome is applied to the row as it is now. *)

(* RecordRefreshOutcomeUnknown: a fence for another grant is not recorded, *)
(* and an observation does not replace proof of a submission.              *)
MergeOutcome(r, job) ==
    IF /\ job.outcome.kind = "unknown" /\ r.grant = job.base.grant
       /\ ~(job.outcome.fence = "observed" /\ r.fence = "submitted")
    THEN [r EXCEPT !.fence = job.outcome.fence] ELSE r

(* mergeRefreshString and the map merges: the exchange's value, unless the row changed since. *)
MergeField(current, base, refreshed) == IF current = base THEN refreshed ELSE current

(* The whole refreshed copy replaces the row. *)
OverwriteRow(r, job) ==
    CASE job.outcome.kind = "tokens" ->
            [r EXCEPT !.label = job.base.label, !.access = job.outcome.access, !.grant = job.outcome.grant,
                      !.lease = NoLease]
      [] OTHER -> [r EXCEPT !.lease = NoLease]
MergeOutcomeOfRefresh(r, job) ==
    CASE job.outcome.kind = "tokens" ->
            [r EXCEPT !.label = MergeField(r.label, job.base.label, job.base.label),
                      !.access = MergeField(r.access, job.base.access, job.outcome.access),
                      !.grant = MergeField(r.grant, job.base.grant, job.outcome.grant),
                      !.fence = IF job.outcome.grant = r.grant THEN r.fence ELSE "none",
                      !.backoff = TRUE]
      [] job.outcome.kind = "rejected" -> [r EXCEPT !.disabled = TRUE, !.backoff = FALSE]
      [] OTHER -> [r EXCEPT !.backoff = TRUE]

Finalized(r, job) ==
    LET cleared == [MergeOutcome(r, job) EXCEPT !.lease = NoLease]
    IN IF r.lease # job.lease THEN r
       ELSE IF r.disabled THEN cleared
       ELSE IF r.access # job.base.access \/ r.grant # job.base.grant
            THEN [cleared EXCEPT !.backoff = FALSE]        \* superseded
       ELSE MergeOutcomeOfRefresh(cleared, job)

FinalizeRow(a, job) ==
    /\ row' = [row EXCEPT ![a] = Finalized(@, job)]
    /\ clobbered' = IF /\ job.overtaken
                       /\ <<row'[a].access, row'[a].grant>> # <<row[a].access, row[a].grant>>
                    THEN clobbered \cup {a} ELSE clobbered

Job(w) == [lease |-> w, base |-> worker[w].base, outcome |-> worker[w].outcome, overtaken |-> worker[w].overtaken]

Finalize(w) ==
    /\ worker[w].pc = "returned"
    /\ FinalizeRow(w[2], Job(w))
    /\ worker' = [worker EXCEPT ![w] = IdleWorker]
    /\ UNCHANGED <<journal, homesUp, issued, submitted, edited, faults, refreshing>>

(* The database did not answer to the end of the lease: the outcome is     *)
(* dropped (retryRefreshFinalize, then continueRefreshFinalize).           *)
FinalizeExpires(w) ==
    /\ worker[w].pc = "returned"
    /\ worker' = [worker EXCEPT ![w] = IdleWorker]
    /\ UNCHANGED <<row, journal, homesUp, issued, submitted, edited, clobbered, faults, refreshing>>

-------------------------------------------------------------------------------
(* The operator, through the management API. *)

OperatorActs == homesUp # {} /\ faults < MaxFaults /\ faults' = faults + 1

Overtake(a) ==
    worker' = [w \in Workers |-> IF w[2] = a /\ worker[w].pc # "idle" THEN [worker[w] EXCEPT !.overtaken = TRUE]
                                                                    ELSE worker[w]]

EditLabel(a) ==
    /\ OperatorActs
    /\ row' = [row EXCEPT ![a].label = faults + 1]
    /\ edited' = [edited EXCEPT ![a] = faults + 1]
    /\ UNCHANGED <<journal, worker, homesUp, issued, submitted, clobbered, refreshing>>

SetDisabled(a) ==
    /\ OperatorActs
    /\ row' = [row EXCEPT ![a].disabled = ~@]
    /\ UNCHANGED <<journal, worker, homesUp, issued, submitted, edited, clobbered, refreshing>>

(* Another access token for the same grant, edited in place: access 0 stands for it. *)
ReplaceAccess(a) ==
    /\ OperatorActs /\ row[a].access # 0
    /\ row' = [row EXCEPT ![a].access = 0]
    /\ Overtake(a)
    /\ UNCHANGED <<journal, homesUp, issued, submitted, edited, clobbered, refreshing>>

(* A credential file from before is uploaded: its old grant, no lease, no fence. *)
RestoreCredential(a, g) ==
    /\ OperatorActs /\ g <= issued
    /\ row' = [row EXCEPT ![a] = [FreshRow("none") EXCEPT !.access = g, !.grant = g, !.label = row[a].label]]
    /\ IF <<row[a].access, row[a].grant>> = <<g, g>> THEN UNCHANGED worker ELSE Overtake(a)
    /\ UNCHANGED <<journal, homesUp, issued, submitted, edited, clobbered, refreshing>>

RefreshNext ==
    \/ \E h \in Homes : StartHome(h) \/ CrashHome(h)
    \/ \E w \in Workers :
        \/ ClaimLease(w) \/ StartExchange(w) \/ JournalClaimFails(w) \/ Submit(w) \/ NotSubmitted(w)
        \/ Respond(w) \/ Finalize(w) \/ FinalizeExpires(w)
    \/ \E a \in Auths : BackoffElapses(a) \/ EditLabel(a) \/ SetDisabled(a) \/ ReplaceAccess(a)
    \/ \E a \in Auths, g \in Grants : RestoreCredential(a, g)

-------------------------------------------------------------------------------
(***************************************************************************)
(* A refresh grant is sent to the provider at most once, whatever crashes, *)
(* lost answers, expired leases, duplicated rows and restored credentials  *)
(* there are (codex_refresh_journal.go, refresh_journal.go).               *)
(***************************************************************************)
GrantSubmittedOnce == \A g \in Grants : submitted[g] <= 1

(***************************************************************************)
(* An operator's edit made while an exchange is in flight is not undone    *)
(* when the exchange stores its outcome (mergeClusterRefreshOutcome).      *)
(***************************************************************************)
EditsSurviveRefresh == \A a \in Auths : row[a].label = edited[a]

(***************************************************************************)
(* Tokens the operator put in place of the ones being exchanged are not    *)
(* overwritten by the outcome of that exchange, however late it is stored  *)
(* (finalizeRefreshLease, codexRefreshGrantReplaced).                      *)
(***************************************************************************)
ReplacedTokensSurvive == clobbered = {}

(***************************************************************************)
(* What an operator changes stays changed: neither labels nor tokens are   *)
(* lost to an exchange that started from older ones.                       *)
(***************************************************************************)
OperatorsWin == EditsSurviveRefresh /\ ReplacedTokensSurvive
================================================================================
