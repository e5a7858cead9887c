----------------------------- MODULE Coordinator -----------------------------
(***************************************************************************)
(* Master election and the local master lease (coordinator.go, the lease   *)
(* part of refresh.go and rebalance_gate.go).                              *)
(*                                                                         *)
(* Every Home upserts its row of the table cluster on each heartbeat and,  *)
(* in the same transaction, elects the oldest live row and renews the      *)
(* master gate.  What the process itself believes (isMaster) is set after  *)
(* the commit and dropped by a timer when no later heartbeat renews it.    *)
(* The callback that starts and stops the auto refresh runs under a mutex  *)
(* of its own, so it may run long after the belief that caused it.         *)
(*                                                                         *)
(* Time enters only through comparisons with the heartbeat timeout: a row  *)
(* has an age, the gate and the timers have what is left of them, and one  *)
(* Tick moves all of them.  started_at is a rank.                          *)
(***************************************************************************)
EXTENDS Integers, FiniteSets

CONSTANTS
    Homes,       \* the addresses, numbered in the order of nodeSortKey
    Timeout,     \* heartbeatTimeout in ticks
    MaxStarts,   \* bound: ranks of started_at
    MaxTerm      \* bound: the term at which faults and unstable time end

ASSUME HomesAssumption == Homes \subseteq Nat \ {0} /\ IsFiniteSet(Homes) /\ Homes # {}
ASSUME TimeoutAssumption == Timeout \in Nat \ {0, 1}
ASSUME MaxStartsAssumption == MaxStarts \in Nat \ {0}
ASSUME MaxTermAssumption == MaxTerm \in Nat

VARIABLES
    rows,        \* the table cluster, by address; started 0 is no row
    gate,        \* cluster_master_gate; lease is what is left of lease_until
    main,        \* each process: its heartbeat loop
    belief,      \* each process: isMaster, masterKnown, masterTimer
    expiring,    \* expireMasterLease calls that have not taken the mutex yet
    notices,     \* notifyMasterChanged calls under way
    refreshing,  \* whether the process runs the auto refresh loop
    starts,      \* the latest rank of started_at
    stable       \* faults have ended and heartbeats arrive in time

vars == <<rows, gate, main, belief, expiring, notices, refreshing, starts, stable>>

NoTimer == -1

Rows == [started : Nat, age : 0 .. Timeout + 1, master : BOOLEAN]
Gates == [term : Nat, home : Homes \union {0}, started : Nat, lease : 0 .. Timeout]
Mains == [pc : {"down", "idle", "apply", "notify"}, started : Nat,
          elected : BOOLEAN, stopping : BOOLEAN]
Beliefs == [isMaster : BOOLEAN, known : BOOLEAN, timer : {NoTimer} \union 0 .. Timeout]

\* A call of notifyMasterChanged: who makes it, for which value, and how far it is.
Notices == [by : {"main", "timer"}, master : BOOLEAN, at : {"waiting", "called", "checked"}]

NoBelief == [isMaster |-> FALSE, known |-> FALSE, timer |-> NoTimer]
Down == [pc |-> "down", started |-> 0, elected |-> FALSE, stopping |-> FALSE]

Up(a) == main[a].pc # "down"

Init ==
    /\ rows = [a \in Homes |-> [started |-> 0, age |-> Timeout + 1, master |-> FALSE]]
    /\ gate = [term |-> 0, home |-> 0, started |-> 0, lease |-> 0]
    /\ main = [a \in Homes |-> Down]
    /\ belief = [a \in Homes |-> NoBelief]
    /\ expiring = [a \in Homes |-> {}]
    /\ notices = [a \in Homes |-> {}]
    /\ refreshing = [a \in Homes |-> FALSE]
    /\ starts = 1
    /\ stable = FALSE

-------------------------------------------------------------------------------
(* The election transaction. *)

\* The rows the election looks at: last_seen_at >= now - heartbeatTimeout.
Live(rs) == {a \in Homes : rs[a].started # 0 /\ rs[a].age <= Timeout}

\* sortClusterNodes: the oldest row first, the address breaks a tie.
Before(rs, a, b) ==
    \/ rs[a].started < rs[b].started
    \/ rs[a].started = rs[b].started /\ a <= b

Elected(rs) == CHOOSE a \in Live(rs) : \A b \in Live(rs) : Before(rs, a, b)

\* CurrentMaster: the flagged live row, 0 when there is none.
CurrentMaster ==
    LET masters == {a \in Live(rows) : rows[a].master} IN
    IF masters = {} THEN 0 ELSE CHOOSE a \in masters : \A b \in masters : Before(rows, a, b)

\* The upsert of the caller's row; the master flag of an existing row is kept.
Beaten(a) == [rows EXCEPT ![a].started = main[a].started, ![a].age = 0]

\* The last statement of the transaction: the elected row, and no other, is the master.
Flag(rs, e) == [a \in Homes |-> [rs[a] EXCEPT !.master = (a = e)]]

\* Faulty variant: only a change of master opens a term.
GateRevivesLease(rs, e) ==
    [term |-> IF gate.home # e \/ gate.started # rs[e].started THEN gate.term + 1 ELSE gate.term,
     home |-> e, started |-> rs[e].started, lease |-> Timeout - rs[e].age]

\* Faulty variant: the gate is renewed from the caller's heartbeat.
GateRenewedByAnyone(rs, e) ==
    LET handover == gate.home # e \/ gate.started # rs[e].started \/ gate.lease = 0 IN
    [term |-> IF handover THEN gate.term + 1 ELSE gate.term,
     home |-> e, started |-> rs[e].started, lease |-> Timeout]

\* lockMasterGate and the update of the gate for the elected row.
RenewedGate(rs, e) ==
    LET handover == gate.home # e \/ gate.started # rs[e].started \/ gate.lease = 0 IN
    [term |-> IF handover THEN gate.term + 1 ELSE gate.term,
     home |-> e, started |-> rs[e].started, lease |-> Timeout - rs[e].age]

(***************************************************************************)
(* heartbeatAndElect, up to its commit.  A tick is the heartbeat interval, *)
(* so a process beats at most once in it.                                  *)
(***************************************************************************)
HeartbeatAndElect(a) ==
    LET beaten == Beaten(a)
        e == Elected(beaten)
    IN
    /\ main[a].pc = "idle"
    /\ rows[a].started # main[a].started \/ rows[a].age > 0
    /\ rows' = Flag(beaten, e)
    /\ gate' = RenewedGate(beaten, e)
    /\ main' = [main EXCEPT ![a].pc = "apply", ![a].elected = (e = a)]
    /\ UNCHANGED <<belief, expiring, notices, refreshing, starts, stable>>

-------------------------------------------------------------------------------
(* What the process believes. *)

\* The belief after setMaster, with the timer it arms.
NextBelief(b, next) ==
    [isMaster |-> next, known |-> TRUE, timer |-> IF next THEN Timeout ELSE NoTimer]

(***************************************************************************)
(* setMaster: an expiry that was already called belongs to an older lease  *)
(* from here on, and the heartbeat loop waits for its own notification.    *)
(***************************************************************************)
SetMaster(a) ==
    LET next == main[a].elected
        changed == ~ belief[a].known \/ belief[a].isMaster # next
    IN
    /\ main[a].pc = "apply"
    /\ belief' = [belief EXCEPT ![a] = NextBelief(@, next)]
    /\ expiring' = [expiring EXCEPT ![a] = IF @ = {} THEN {} ELSE {"older"}]
    /\ IF changed
       THEN /\ notices' = [notices EXCEPT ![a] = @ \union
                    {[by |-> "main", master |-> next, at |-> "waiting"]}]
            /\ main' = [main EXCEPT ![a].pc = "notify"]
       ELSE /\ notices' = notices
            /\ main' = [main EXCEPT ![a].pc = IF main[a].stopping THEN "down" ELSE "idle"]
    /\ refreshing' = [refreshing EXCEPT ![a] = @ /\ main'[a].pc # "down"]
    /\ UNCHANGED <<rows, gate, starts, stable>>

\* The AfterFunc timer of the current lease fires.
TimerFires(a) ==
    /\ belief[a].timer = 0
    /\ belief' = [belief EXCEPT ![a].timer = NoTimer]
    /\ expiring' = [expiring EXCEPT ![a] = @ \union {"current"}]
    /\ UNCHANGED <<rows, gate, main, notices, refreshing, starts, stable>>

\* expireMasterLease: an older lease changes nothing.
ExpireMasterLease(a, lease) ==
    /\ lease \in expiring[a]
    /\ expiring' = [expiring EXCEPT ![a] = @ \ {lease}]
    /\ IF lease = "current" /\ belief[a].isMaster
       THEN /\ belief' = [belief EXCEPT ![a].isMaster = FALSE]
            /\ notices' = [notices EXCEPT ![a] = @ \union
                    {[by |-> "timer", master |-> FALSE, at |-> "waiting"]}]
       ELSE UNCHANGED <<belief, notices>>
    /\ UNCHANGED <<rows, gate, main, refreshing, starts, stable>>

-------------------------------------------------------------------------------
(* notifyMasterChanged and RefreshController.OnMasterChanged. *)

CallbackFree(a) == \A n \in notices[a] : n.at = "waiting"

\* The call n returns; the heartbeat loop goes on when it was its own.
Returns(a, n) ==
    /\ notices' = [notices EXCEPT ![a] = @ \ {n}]
    /\ main' = IF n.by = "main"
               THEN [main EXCEPT ![a].pc = IF @ = "notify"
                         THEN IF main[a].stopping THEN "down" ELSE "idle" ELSE @]
               ELSE main

\* Faulty variant: the belief is not read again under the callback mutex.
NotifyUnchecked(a, n) ==
    /\ n \in notices[a] /\ n.at = "waiting"
    /\ CallbackFree(a)
    /\ notices' = [notices EXCEPT ![a] = (@ \ {n}) \union {[n EXCEPT !.at = "called"]}]
    /\ UNCHANGED <<rows, gate, main, belief, expiring, refreshing, starts, stable>>

\* The callback mutex is taken; a belief that has changed meanwhile ends the call.
NotifyMasterChanged(a, n) ==
    /\ n \in notices[a] /\ n.at = "waiting"
    /\ CallbackFree(a)
    /\ IF belief[a].isMaster # n.master
       THEN /\ Returns(a, n)
            /\ refreshing' = [refreshing EXCEPT ![a] = @ /\ main'[a].pc # "down"]
       ELSE /\ notices' = [notices EXCEPT ![a] = (@ \ {n}) \union {[n EXCEPT !.at = "called"]}]
            /\ UNCHANGED <<main, refreshing>>
    /\ UNCHANGED <<rows, gate, belief, expiring, starts, stable>>

\* OnMasterChanged(true) asks CanAutoRefresh before it starts the loop.
CheckCanAutoRefresh(a, n) ==
    /\ n \in notices[a] /\ n.at = "called" /\ n.master
    /\ IF belief[a].isMaster
       THEN /\ notices' = [notices EXCEPT ![a] = (@ \ {n}) \union {[n EXCEPT !.at = "checked"]}]
            /\ UNCHANGED main
       ELSE Returns(a, n)
    /\ UNCHANGED <<rows, gate, belief, expiring, refreshing, starts, stable>>

StartAutoRefresh(a, n) ==
    /\ n \in notices[a] /\ n.at = "checked"
    /\ refreshing' = [refreshing EXCEPT ![a] = TRUE]
    /\ Returns(a, n)
    /\ UNCHANGED <<rows, gate, belief, expiring, starts, stable>>

StopAutoRefresh(a, n) ==
    /\ n \in notices[a] /\ n.at = "called" /\ ~ n.master
    /\ refreshing' = [refreshing EXCEPT ![a] = FALSE]
    /\ Returns(a, n)
    /\ UNCHANGED <<rows, gate, belief, expiring, starts, stable>>

-------------------------------------------------------------------------------
(* Processes and time. *)

\* Initialize registers an incarnation, later than any other of this address, and beats.
Initialize(a, started) ==
    /\ ~ stable /\ gate.term < MaxTerm
    /\ main[a].pc = "down"
    /\ started \in {starts, starts + 1} /\ started <= MaxStarts
    /\ started > rows[a].started /\ started > main[a].started
    /\ main' = [main EXCEPT ![a] =
            [pc |-> "idle", started |-> started, elected |-> FALSE, stopping |-> FALSE]]
    /\ belief' = [belief EXCEPT ![a] = NoBelief]
    /\ starts' = started
    /\ UNCHANGED <<rows, gate, expiring, notices, refreshing, stable>>

\* Start leaves its loop, on an error or a canceled context, through setMaster(false).
StopLoop(a) ==
    /\ ~ stable
    /\ main[a].pc = "idle"
    /\ main' = [main EXCEPT ![a].pc = "apply", ![a].elected = FALSE, ![a].stopping = TRUE]
    /\ UNCHANGED <<rows, gate, belief, expiring, notices, refreshing, starts, stable>>

\* The process dies.
Crash(a) ==
    /\ ~ stable
    /\ Up(a)
    /\ main' = [main EXCEPT ![a].pc = "down"]
    /\ belief' = [belief EXCEPT ![a] = NoBelief]
    /\ expiring' = [expiring EXCEPT ![a] = {}]
    /\ notices' = [notices EXCEPT ![a] = {}]
    /\ refreshing' = [refreshing EXCEPT ![a] = FALSE]
    /\ UNCHANGED <<rows, gate, starts, stable>>

\* Once the cluster is stable no heartbeat or renewal comes too late.
InTime(a) ==
    /\ rows[a].started = main[a].started
    /\ rows[a].age + 1 < Timeout
    /\ belief[a].timer \in {NoTimer} \union 2 .. Timeout

Tick ==
    /\ IF stable THEN \A a \in Homes : Up(a) => InTime(a) ELSE gate.term < MaxTerm
    /\ rows' = [a \in Homes |-> [rows[a] EXCEPT !.age = IF @ > Timeout THEN @ ELSE @ + 1]]
    /\ gate' = [gate EXCEPT !.lease = IF @ = 0 THEN 0 ELSE @ - 1]
    /\ belief' = [a \in Homes |-> [belief[a] EXCEPT !.timer = IF @ > 0 THEN @ - 1 ELSE @]]
    /\ UNCHANGED <<main, expiring, notices, refreshing, starts, stable>>

\* From some moment on nothing fails.
Stabilise ==
    /\ ~ stable
    /\ stable' = TRUE
    /\ UNCHANGED <<rows, gate, main, belief, expiring, notices, refreshing, starts>>

NoticeStep(a) ==
    \E n \in notices[a] :
        \/ NotifyMasterChanged(a, n)
        \/ CheckCanAutoRefresh(a, n)
        \/ StartAutoRefresh(a, n)
        \/ StopAutoRefresh(a, n)

Next ==
    \/ \E a \in Homes :
        \/ HeartbeatAndElect(a)
        \/ SetMaster(a)
        \/ TimerFires(a)
        \/ \E lease \in {"current", "older"} : ExpireMasterLease(a, lease)
        \/ NoticeStep(a)
        \/ \E started \in 1 .. MaxStarts : Initialize(a, started)
        \/ StopLoop(a)
        \/ Crash(a)
    \/ Tick
    \/ Stabilise

Spec == Init /\ [][Next]_vars

(***************************************************************************)
(* The heartbeat ticker, the timers and the goroutines they start keep     *)
(* running in a live process, and time passes.                             *)
(***************************************************************************)
Fairness ==
    /\ WF_vars(Tick)
    /\ \A a \in Homes :
        /\ WF_vars(HeartbeatAndElect(a))
        /\ WF_vars(SetMaster(a))
        /\ WF_vars(TimerFires(a))
        /\ \A lease \in {"current", "older"} : WF_vars(ExpireMasterLease(a, lease))
        /\ WF_vars(NoticeStep(a))

FairSpec == Spec /\ Fairness

-------------------------------------------------------------------------------
TypeOK ==
    /\ rows \in [Homes -> Rows]
    /\ gate \in Gates
    /\ main \in [Homes -> Mains]
    /\ belief \in [Homes -> Beliefs]
    /\ expiring \in [Homes -> SUBSET {"current", "older"}]
    /\ notices \in [Homes -> SUBSET Notices]
    /\ refreshing \in [Homes -> BOOLEAN]
    /\ starts \in Nat
    /\ stable \in BOOLEAN

(***************************************************************************)
(* Followers forward refreshes to CurrentMaster while the rebalancer       *)
(* trusts the gate.  While the gate's lease runs, the two name the same    *)
(* process, whatever restarted or fell silent in between.                  *)
(***************************************************************************)
LeaseHolderIsCurrentMaster ==
    gate.lease > 0 =>
        /\ CurrentMaster = gate.home
        /\ rows[gate.home].started = gate.started

\* The leadership other components rely on, as the gate row keeps it.
Gate == INSTANCE Leadership WITH
    Leaders <- Homes \X (1 .. MaxStarts),
    NoLeader <- <<0, 0>>,
    term <- gate.term,
    leader <- <<gate.home, gate.started>>,
    valid <- gate.lease > 0

(***************************************************************************)
(* The gate implements the abstract leadership: whatever heartbeats,       *)
(* stalls and restarts happen, a term has one master and a lease that has  *)
(* run out is only ever followed by a new term.                            *)
(***************************************************************************)
GateIsLeadership == Gate!LeadershipSpec

(***************************************************************************)
(* A belief in being the master always has an end in sight: its timer is   *)
(* running, or the expiry it fired is about to take the mutex.             *)
(***************************************************************************)
BeliefExpires ==
    \A a \in Homes : belief[a].isMaster => belief[a].timer # NoTimer \/ "current" \in expiring[a]

(***************************************************************************)
(* An expiry that was called before a renewal never ends the renewed       *)
(* belief: the timer of the current lease must have fired first.           *)
(***************************************************************************)
RenewalOutlivesOlderExpiry ==
    [][\A a \in Homes :
        belief[a].isMaster /\ ~ belief'[a].isMaster /\ main[a] = main'[a] =>
            belief[a].timer = NoTimer]_vars

(***************************************************************************)
(* The callbacks of a heartbeat and of an expiry may run in either order,  *)
(* late, and around a change of belief.  Once none is under way, the auto  *)
(* refresh loop runs exactly when the process believes it is the master.   *)
(***************************************************************************)
RefreshFollowsBelief ==
    \A a \in Homes : Up(a) /\ notices[a] = {} => (refreshing[a] <=> belief[a].isMaster)

(***************************************************************************)
(* The gate, the flagged row, the belief of each process and its auto      *)
(* refresh tell one story, up to the callbacks under way.                  *)
(***************************************************************************)
MastersAgree == LeaseHolderIsCurrentMaster /\ BeliefExpires /\ RefreshFollowsBelief

\* The running processes agree: the oldest is the master and refreshes, the others do not.
Agreed ==
    \A a \in Homes : Up(a) =>
        /\ belief[a].isMaster <=> \A b \in Homes : Up(b) => main[a].started < main[b].started
                                        \/ (main[a].started = main[b].started /\ a <= b)
        /\ refreshing[a] <=> belief[a].isMaster

(***************************************************************************)
(* Once nothing fails any more, the running Homes agree for good on the    *)
(* oldest of them, and exactly that one runs the auto refresh.             *)
(***************************************************************************)
ElectionSettles == <>stable => <>[]Agreed
==============================================================================
