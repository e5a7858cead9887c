------------------------------ MODULE Rebalance ------------------------------
(***************************************************************************)
(* Moving CPA nodes between Homes (rebalance.go, rebalance_swap.go and the *)
(* gates of rebalance_gate.go).                                            *)
(*                                                                         *)
(* The leader plans moves from the loads it reads, a CPA claims its plan   *)
(* over the lifetime it is connected in, moves, and reports the result.    *)
(* All writers of plans hold the rebalance mutex, but elections, Homes     *)
(* and memberships change underneath; the last work of a planning or       *)
(* claiming transaction is therefore a fence that compares the leadership  *)
(* and the Homes with what the transaction started from.  tx is the        *)
(* transaction that holds the mutex, with the working set it will commit.  *)
(* Durations count ticks.                                                  *)
(***************************************************************************)
EXTENDS Leadership, Integers, FiniteSets, FiniteSetsExt

CONSTANTS
    Homes,        \* Home incarnations, all of them able to take part
    Nodes,        \* CPA nodes, by fingerprint
    Placements,   \* where the CPA nodes are connected at first
    PlanIds,      \* bound: plans ever created, numbered
    MaxLifetime,  \* bound: lifetimes of one CPA node
    MaxTerm,      \* bound: terms
    MaxActive,    \* rebalanceMaxActive
    PlanTTL,      \* rebalancePlanTTL
    Interval,     \* rebalanceInterval
    Cooldown,     \* rebalanceCooldown
    SwapCooldown, \* rebalanceLatencyCooldown
    MinBackoff,   \* the first failure backoff
    MaxBackoff,   \* the longest failure backoff
    Evidence      \* how often a latency swap must be confirmed

ASSUME HomesAssumption == IsFiniteSet(Homes) /\ Leaders = Homes
ASSUME NodesAssumption == IsFiniteSet(Nodes)
ASSUME PlacementsAssumption == Placements \subseteq [Nodes -> Homes]
ASSUME PlanIdsAssumption == IsFiniteSet(PlanIds) /\ PlanIds \subseteq Nat \ {0}
ASSUME BoundsAssumption == {MaxLifetime, MaxTerm, MaxActive, PlanTTL, Interval, Cooldown,
                            SwapCooldown, MinBackoff, MaxBackoff, Evidence} \subseteq Nat
ASSUME MaxActiveAssumption == MaxActive >= 2  \* room for both legs of a swap

VARIABLES
    live,      \* Homes whose election row and incarnation are fresh
    members,   \* active memberships: owner, connected_at, fresh heartbeat
    plans,     \* cpa_rebalance_plans
    clients,   \* cpa_rebalance_clients
    confirm,   \* cpa_latency_confirmations: the pair and its evidence
    cadence,   \* what is left of the interval since last_balance_at
    told,      \* plans a CPA node has been told of
    tx         \* the transaction holding the rebalance mutex

vars == <<term, leader, valid, live, members, plans, clients, confirm, cadence, told, tx>>

States == {"none", "pending", "executing", "completed", "failed", "canceled"}
ActiveStates == {"pending", "executing"}

NoPlan == [state |-> "none", group |-> 0, term |-> 0, node |-> NoLeader,
           at |-> 0, source |-> NoLeader, target |-> NoLeader, ttl |-> 0]

Plans == [state : States, group : PlanIds \union {0}, term : Nat,
          node : Nodes \union {NoLeader}, at : Nat,
          source : Homes \union {NoLeader}, target : Homes \union {NoLeader}, ttl : Nat]

\* at is 0 until ENABLE; wait and opt are what is left until NextEligibleAt and
\* OptimizationEligibleAt.
Clients == [at : Nat, wait : Nat, opt : Nat, backoff : Nat]

Members == [home : Homes \union {NoLeader}, at : Nat, fresh : BOOLEAN]

NoPair == {}
NoTx == [kind |-> "none"]

Init ==
    /\ LeadershipInit
    /\ live = Homes
    /\ \E placed \in Placements :
            members = [f \in Nodes |-> [home |-> placed[f], at |-> 1, fresh |-> TRUE]]
    /\ plans = [p \in PlanIds |-> NoPlan]
    /\ clients = [f \in Nodes |-> [at |-> 0, wait |-> 0, opt |-> 0, backoff |-> 0]]
    /\ confirm = [pair |-> NoPair, count |-> 0]
    /\ cadence = 0
    /\ told = {}
    /\ tx = NoTx

Active(ps) == {p \in PlanIds : ps[p].state \in ActiveStates}

-------------------------------------------------------------------------------
(* Loads, as loadRebalanceMembers and reserveRebalanceLoad compute them.   *)

\* The members counted in a snapshot of members ms and live Homes hs.
Counted(ms, hs) == {f \in Nodes : ms[f].fresh /\ ms[f].home \in hs}

AtSource(ms, hs, p) == p.node \in Counted(ms, hs) /\ ms[p.node].home = p.source /\ ms[p.node].at = p.at
AtTarget(ms, hs, p) == p.node \in Counted(ms, hs) /\ ms[p.node].home = p.target /\ ms[p.node].at > p.at

\* Plans of ids that reserve a place at their target.
Reserving(ps, ids, ms, hs) ==
    {p \in ids : ps[p].target \in hs /\ (ps[p].state = "executing" \/ AtSource(ms, hs, ps[p]))}

\* The load of home h with the reservations of ids.
Load(ps, ids, ms, hs, h) ==
    Cardinality({f \in Counted(ms, hs) : ms[f].home = h})
    + Cardinality({p \in Reserving(ps, ids, ms, hs) : ps[p].target = h})
    - Cardinality({p \in Reserving(ps, ids, ms, hs) :
            ps[p].node \in Counted(ms, hs) /\ ms[ps[p].node].home = h})

\* Live members, and the executing ones that are between two Homes.
Total(ps, ids, ms, hs) ==
    Cardinality(Counted(ms, hs))
    + Cardinality({p \in Reserving(ps, ids, ms, hs) : ps[p].node \notin Counted(ms, hs)})

\* How many moves may leave a Home with this load; Homes share total evenly on average.
Quota(load, total, n) ==
    IF load * n > total THEN Max({1, Min({load \div 4, (load * n - total) \div (2 * n)})}) ELSE 0

-------------------------------------------------------------------------------
(* finishRebalancePlan *)

\* The client row after its plan ended: a failure or cancellation never shortens a wait.
ClientAfter(c, state, swap) ==
    LET backoff == IF state = "failed" THEN Min({Max({MinBackoff, 2 * c.backoff}), MaxBackoff})
                   ELSE IF state = "completed" THEN 0 ELSE c.backoff
    IN [c EXCEPT !.backoff = backoff,
                 !.opt = IF state = "completed" /\ swap THEN SwapCooldown ELSE @,
                 !.wait = IF state = "completed" THEN Cooldown
                          ELSE Max({@, IF state = "failed" THEN backoff ELSE Interval})]

\* Faulty variant: the other leg of a swap is left pending.
EndedAlone(ps, p, state) == {}

\* The pending peers of a swap end with the leg that failed or was canceled.
CanceledWith(ps, p, state) ==
    IF ps[p].group # 0 /\ state \in {"failed", "canceled"}
    THEN {q \in PlanIds : q # p /\ ps[q].group = ps[p].group /\ ps[q].state = "pending"}
    ELSE {}

FinishedPlans(ps, p, state) ==
    [q \in PlanIds |->
        IF q = p THEN [ps[q] EXCEPT !.state = state]
        ELSE IF q \in CanceledWith(ps, p, state) THEN [ps[q] EXCEPT !.state = "canceled"]
        ELSE ps[q]]

FinishedClients(ps, cs, p, state) ==
    [f \in Nodes |->
        IF f = ps[p].node THEN ClientAfter(cs[f], state, ps[p].group # 0)
        ELSE IF \E q \in CanceledWith(ps, p, state) : ps[q].node = f
        THEN ClientAfter(cs[f], "canceled", TRUE)
        ELSE cs[f]]

-------------------------------------------------------------------------------
(* ReconcileRebalances: settle the active plans, then plan new moves.      *)

BeginReconcile ==
    /\ tx = NoTx
    /\ valid /\ leader \in live
    /\ tx' = [kind |-> "settle", term |-> term, live |-> live, members |-> members,
              plans |-> plans, clients |-> clients, confirm |-> confirm,
              todo |-> Active(plans), changed |-> FALSE, balance |-> FALSE,
              moved |-> [h \in Homes |-> 0], claim |-> 0, late |-> FALSE]
    /\ UNCHANGED <<term, leader, valid, live, members, plans, clients, confirm, cadence, told>>

\* Faulty variant: an executing plan is left to the CPA's report.
OutcomeTrustsReport(p) ==
    LET plan == tx.plans[p]
        source == AtSource(tx.members, tx.live, plan)
    IN
    IF plan.state = "executing" THEN "none"
    ELSE IF plan.ttl = 0 THEN "failed"
    ELSE IF ~ source \/ plan.term # tx.term THEN "canceled"
    ELSE IF plan.target \notin tx.live THEN "failed"
    ELSE "none"

\* What becomes of an active plan; "none" leaves it alone.
Outcome(p) ==
    LET plan == tx.plans[p]
        source == AtSource(tx.members, tx.live, plan)
        target == AtTarget(tx.members, tx.live, plan)
        counted == plan.node \in Counted(tx.members, tx.live)
    IN
    IF plan.state = "executing" /\ target THEN "completed"
    ELSE IF plan.group # 0 /\ plan.state = "executing" /\ counted /\ ~ source THEN "failed"
    ELSE IF plan.ttl = 0 THEN "failed"
    ELSE IF plan.state = "pending" /\ (~ source \/ plan.term # tx.term) THEN "canceled"
    ELSE IF plan.state = "pending" /\ plan.target \notin tx.live THEN "failed"
    ELSE "none"

\* One iteration over the active plans, in whatever order the query returned them.
SettlePlan(p) ==
    LET outcome == IF tx.plans[p].state \in ActiveStates THEN Outcome(p) ELSE "none" IN
    /\ tx.kind = "settle"
    /\ p \in tx.todo
    /\ tx' = IF outcome = "none" THEN [tx EXCEPT !.todo = @ \ {p}]
             ELSE [tx EXCEPT !.todo = @ \ {p}, !.changed = TRUE,
                             !.plans = FinishedPlans(@, p, outcome),
                             !.clients = FinishedClients(tx.plans, @, p, outcome)]
    /\ UNCHANGED <<term, leader, valid, live, members, plans, clients, confirm, cadence, told>>

\* All plans are settled; the interval decides whether moves are planned.
BeginPlanning ==
    /\ tx.kind = "settle"
    /\ tx.todo = {}
    /\ tx' = [tx EXCEPT !.kind = IF cadence = 0 /\ Cardinality(tx.live) >= 2 THEN "plan" ELSE "fence",
                        !.balance = (cadence = 0)]
    /\ UNCHANGED <<term, leader, valid, live, members, plans, clients, confirm, cadence, told>>

\* The load a planning transaction sees, its own new plans included.
PlannedLoad(h) == Load(tx.plans, Active(tx.plans), tx.members, tx.live, h)

\* The quota of a Home, from the loads before the first new plan.
QuotaLeft(h) ==
    LET settled == {p \in Active(tx.plans) : plans[p].state # "none"}
        total == Total(tx.plans, settled, tx.members, tx.live)
    IN Quota(Load(tx.plans, settled, tx.members, tx.live, h), total, Cardinality(tx.live)) - tx.moved[h]

\* Members that may be moved.
Movable(f) ==
    /\ f \in Counted(tx.members, tx.live)
    /\ tx.clients[f].at = tx.members[f].at
    /\ tx.clients[f].wait = 0
    /\ \A p \in Active(tx.plans) : tx.plans[p].node # f

Candidates ==
    LET n == Cardinality(tx.live)
        total == Total(tx.plans, {p \in Active(tx.plans) : plans[p].state # "none"}, tx.members, tx.live)
    IN {m \in Nodes \X tx.live :
            LET source == tx.members[m[1]].home IN
            /\ Movable(m[1])
            /\ QuotaLeft(source) > 0
            /\ PlannedLoad(source) * n > total
            /\ PlannedLoad(source) - PlannedLoad(m[2]) >= 2
            /\ PlannedLoad(m[2]) * n < total}

\* From the fullest Home to the emptiest; latency only breaks ties.
Better(m, o) ==
    LET load(x) == PlannedLoad(tx.members[x[1]].home) IN
    load(m) > load(o) \/ (load(m) = load(o) /\ PlannedLoad(m[2]) <= PlannedLoad(o[2]))

NewPlan(f, target, group) ==
    [state |-> "pending", group |-> group, term |-> tx.term, node |-> f, at |-> tx.members[f].at,
     source |-> tx.members[f].home, target |-> target, ttl |-> PlanTTL]

FreeIds == {p \in PlanIds : tx.plans[p].state = "none"}
FreshId == Min(FreeIds)

\* Faulty variant: the number of active plans is not limited.
PlanMoveUnlimited(m) ==
    /\ tx.kind = "plan"
    /\ FreeIds # {}
    /\ m \in Candidates /\ \A o \in Candidates : Better(m, o)
    /\ tx' = [tx EXCEPT !.plans[FreshId] = NewPlan(m[1], m[2], 0),
                        !.moved[tx.members[m[1]].home] = @ + 1]
    /\ UNCHANGED <<term, leader, valid, live, members, plans, clients, confirm, cadence, told>>

\* One iteration of the planning loop.
PlanMove(m) ==
    /\ tx.kind = "plan"
    /\ FreeIds # {}
    /\ Cardinality(Active(tx.plans)) < MaxActive
    /\ m \in Candidates /\ \A o \in Candidates : Better(m, o)
    /\ tx' = [tx EXCEPT !.plans[FreshId] = NewPlan(m[1], m[2], 0),
                        !.moved[tx.members[m[1]].home] = @ + 1]
    /\ UNCHANGED <<term, leader, valid, live, members, plans, clients, confirm, cadence, told>>

\* The loop ends when no move is left, or at the limit.
PlanningEnds == FreeIds = {} \/ Candidates = {} \/ Cardinality(Active(tx.plans)) >= MaxActive

\* latencyClientEligible
SwapEligible(f) ==
    /\ f \in Counted(tx.members, tx.live)
    /\ tx.clients[f].at = tx.members[f].at
    /\ tx.clients[f].wait = 0 /\ tx.clients[f].opt = 0

\* planLatencySwap looks for a pair only when no move is active and the loads are even.
Swappable(a, b) ==
    /\ Active(tx.plans) = {}
    /\ SwapEligible(a) /\ SwapEligible(b)
    /\ tx.members[a].home # tx.members[b].home
    /\ \A h, k \in tx.live : PlannedLoad(h) - PlannedLoad(k) <= 1

(***************************************************************************)
(* planLatencySwap with the pair the samples favour, or none.  Which pair  *)
(* that is, and whether its samples are new evidence, is the samples'      *)
(* choice; a pair is exchanged after Evidence confirmations in a row.      *)
(***************************************************************************)
NoSwap ==
    /\ tx.kind = "plan" /\ PlanningEnds
    /\ tx' = [tx EXCEPT !.kind = "fence", !.confirm = [pair |-> NoPair, count |-> 0]]
    /\ UNCHANGED <<term, leader, valid, live, members, plans, clients, confirm, cadence, told>>

\* samples: none newer than the last confirmation, all newer, or the confirmation is too old.
ConfirmSwap(a, b, samples) ==
    LET pair == {<<f, tx.members[f]>> : f \in {a, b}}
        count == IF tx.confirm.pair # pair \/ samples = "outlived" THEN 1
                 ELSE IF samples = "newer" THEN tx.confirm.count + 1 ELSE tx.confirm.count
    IN
    /\ tx.kind = "plan" /\ PlanningEnds
    /\ Swappable(a, b)
    /\ count >= Evidence => Cardinality(FreeIds) >= 2
    /\ tx' = IF count < Evidence
             THEN [tx EXCEPT !.kind = "fence", !.confirm = [pair |-> pair, count |-> count]]
             ELSE [tx EXCEPT !.kind = "fence", !.confirm = [pair |-> NoPair, count |-> 0],
                    !.plans = [p \in PlanIds |->
                        IF p = FreshId THEN NewPlan(a, tx.members[b].home, FreshId)
                        ELSE IF p = FreshId + 1 THEN NewPlan(b, tx.members[a].home, FreshId)
                        ELSE @[p]]]
    /\ UNCHANGED <<term, leader, valid, live, members, plans, clients, confirm, cadence, told>>

\* Faulty variant: only the leadership is compared, not the Homes and members it was decided on.
FenceIgnoresHomes == term = tx.term /\ valid

\* fenceRebalanceLeadership: the leadership, the Homes and the snapshot still hold.
FenceHolds ==
    /\ term = tx.term
    /\ valid
    /\ ~ tx.late
    /\ tx.live = live

(***************************************************************************)
(* The end of a reconciliation or a claim: the fence and the commit, or    *)
(* the rollback.  A transaction that wrote nothing has nothing to fence.   *)
(***************************************************************************)
EndTransaction ==
    /\ tx.kind = "fence"
    /\ IF FenceHolds /\ (tx.changed \/ tx.balance)
       THEN /\ plans' = tx.plans
            /\ clients' = tx.clients
            /\ confirm' = tx.confirm
            /\ cadence' = IF tx.balance THEN Interval ELSE cadence
       ELSE UNCHANGED <<plans, clients, confirm, cadence>>
    /\ tx' = NoTx
    /\ UNCHANGED <<term, leader, valid, live, members, told>>

-------------------------------------------------------------------------------
(* The CPA's side: RebalanceInstruction and HandleRebalance. *)

Connected(f) == members[f].home # NoLeader

\* ENABLE registers the lifetime; what is left of a wait stays.
Enable(f) ==
    /\ tx = NoTx
    /\ Connected(f) /\ members[f].home \in live
    /\ clients[f].at # members[f].at
    /\ clients' = [clients EXCEPT ![f].at = members[f].at]
    /\ UNCHANGED <<term, leader, valid, live, members, plans, confirm, cadence, told, tx>>

\* RebalanceInstruction takes no lock: what it tells may be outdated when it is used.
Instruct(f, p) ==
    /\ valid
    /\ Connected(f)
    /\ plans[p].node = f /\ plans[p].state = "pending" /\ plans[p].term = term
    /\ plans[p].ttl > 0
    /\ plans[p].at = members[f].at /\ plans[p].source = members[f].home
    /\ told' = told \union {p}
    /\ UNCHANGED <<term, leader, valid, live, members, plans, clients, confirm, cadence, tx>>

\* validateSwapClaim, for the other leg q of the swap.
PeerStands(q) ==
    LET peer == plans[q]
        source == AtSource(members, live, peer)
        target == AtTarget(members, live, peer)
    IN
    /\ peer.term = term
    /\ peer.state = "pending" => peer.ttl > 0 /\ source
    /\ peer.state = "executing" =>
            peer.ttl > 0 /\ (peer.node \in Counted(members, live) => source \/ target)
    /\ peer.state = "completed" => target
    /\ peer.state \in {"pending", "executing", "completed"}

\* The claim is in the interest of the loads, or of both legs of a swap.
ClaimJustified(p) ==
    LET others == {q \in PlanIds \ {p} : plans[q].ttl > 0 /\
                    (plans[q].state = "executing" \/ (plans[q].state = "pending" /\ plans[q].term = term))}
        load(h) == Load(plans, others, members, live, h)
    IN
    IF plans[p].group # 0
    THEN \A q \in PlanIds \ {p} : plans[q].group = plans[p].group => PeerStands(q)
    ELSE load(plans[p].source) - load(plans[p].target) >= 2

(***************************************************************************)
(* CLAIM over the current lifetime of f, which stays pinned until the      *)
(* transaction ends.  A plan that is no longer wanted is canceled.         *)
(***************************************************************************)
Claim(f, p) ==
    LET justified == f \in Counted(members, live) /\ ClaimJustified(p) IN
    /\ tx = NoTx
    /\ p \in told
    /\ Connected(f)
    /\ valid
    /\ plans[p].node = f /\ plans[p].state = "pending" /\ plans[p].term = term
    /\ plans[p].ttl > 0
    /\ plans[p].at = members[f].at /\ plans[p].source = members[f].home
    /\ plans[p].target \in live
    /\ tx' = [kind |-> "fence", term |-> term, live |-> live, members |-> members,
              plans |-> IF justified
                        THEN [plans EXCEPT ![p].state = "executing", ![p].ttl = PlanTTL]
                        ELSE FinishedPlans(plans, p, "canceled"),
              clients |-> IF justified THEN clients ELSE FinishedClients(plans, clients, p, "canceled"),
              confirm |-> confirm, todo |-> {}, changed |-> TRUE, balance |-> FALSE,
              moved |-> [h \in Homes |-> 0], claim |-> p, late |-> FALSE]
    /\ UNCHANGED <<term, leader, valid, live, members, plans, clients, confirm, cadence, told>>

\* RESULT success is believed only from the target, in a later lifetime.
ResultSuccess(f, p) ==
    /\ tx = NoTx
    /\ p \in told
    /\ plans[p].node = f /\ plans[p].state = "executing"
    /\ members[f].home = plans[p].target /\ members[f].at > plans[p].at
    /\ plans' = FinishedPlans(plans, p, "completed")
    /\ clients' = FinishedClients(plans, clients, p, "completed")
    /\ UNCHANGED <<term, leader, valid, live, members, confirm, cadence, told, tx>>

\* RESULT failed may come from anywhere, and for a plan that was never claimed.
ResultFailed(f, p) ==
    /\ tx = NoTx
    /\ p \in told
    /\ Connected(f)
    /\ plans[p].node = f /\ plans[p].state \in ActiveStates
    /\ plans' = FinishedPlans(plans, p, "failed")
    /\ clients' = FinishedClients(plans, clients, p, "failed")
    /\ UNCHANGED <<term, leader, valid, live, members, confirm, cadence, told, tx>>

-------------------------------------------------------------------------------
(* The world around the rebalancer. *)

\* The claiming lifetime is pinned while its transaction is open.
Pinned(f) == tx # NoTx /\ tx.claim # 0 /\ tx.plans[tx.claim].node = f

\* The transaction's snapshot has lost a heartbeat it counted on.
Late(f) == tx' = IF tx # NoTx /\ f \in Counted(tx.members, tx.live) THEN [tx EXCEPT !.late = TRUE] ELSE tx

\* A CPA node connects to h: as its plan says, or on its own.
Connect(f, h) ==
    /\ ~ Pinned(f)
    /\ h \in live
    /\ members[f].home # h
    /\ members[f].at < MaxLifetime
    /\ members' = [members EXCEPT ![f] = [home |-> h, at |-> @.at + 1, fresh |-> TRUE]]
    /\ UNCHANGED <<term, leader, valid, live, plans, clients, confirm, cadence, told, tx>>

\* Its heartbeats stop, and its membership is closed some time later.
FallSilent(f) ==
    /\ members[f].fresh
    /\ members' = [members EXCEPT ![f].fresh = FALSE]
    /\ Late(f)
    /\ UNCHANGED <<term, leader, valid, live, plans, clients, confirm, cadence, told>>

CloseMembership(f) ==
    /\ ~ Pinned(f)
    /\ Connected(f) /\ ~ members[f].fresh
    /\ members' = [members EXCEPT ![f].home = NoLeader]
    /\ UNCHANGED <<term, leader, valid, live, plans, clients, confirm, cadence, told, tx>>

\* An election, or the end of the lease; a new term may balance at once.
ElectLeader(h) ==
    /\ term < MaxTerm
    /\ Elect(h, TRUE)
    /\ h \in live
    /\ cadence' = 0
    /\ UNCHANGED <<live, members, plans, clients, confirm, told, tx>>

LoseLease ==
    /\ Lapse
    /\ UNCHANGED <<live, members, plans, clients, confirm, cadence, told, tx>>

\* A Home stops beating: it is no longer live, and a leader loses its lease with it.
LoseHome(h) ==
    /\ h \in live
    /\ live' = live \ {h}
    /\ IF leader = h /\ valid THEN Lapse ELSE UNCHANGED leadership
    /\ UNCHANGED <<members, plans, clients, confirm, cadence, told, tx>>

\* It was only slow.
RecoverHome(h) ==
    /\ h \notin live
    /\ live' = live \union {h}
    /\ UNCHANGED <<term, leader, valid, members, plans, clients, confirm, cadence, told, tx>>

\* A transaction is shorter than a tick.
Tick ==
    /\ tx = NoTx
    /\ plans' = [p \in PlanIds |-> [plans[p] EXCEPT !.ttl = Max({@ - 1, 0})]]
    /\ clients' = [f \in Nodes |-> [clients[f] EXCEPT !.wait = Max({@ - 1, 0}), !.opt = Max({@ - 1, 0})]]
    /\ cadence' = Max({cadence - 1, 0})
    /\ UNCHANGED <<term, leader, valid, live, members, confirm, told, tx>>

PlannerStep ==
    \/ BeginReconcile
    \/ \E p \in PlanIds : SettlePlan(p)
    \/ BeginPlanning
    \/ \E m \in Nodes \X Homes : PlanMove(m)
    \/ NoSwap
    \/ \E a, b \in Nodes, samples \in {"same", "newer", "outlived"} : ConfirmSwap(a, b, samples)
    \/ EndTransaction

NodeStep(f) ==
    \/ Enable(f)
    \/ \E p \in PlanIds : Instruct(f, p) \/ Claim(f, p) \/ ResultSuccess(f, p) \/ ResultFailed(f, p)
    \/ \E h \in Homes : Connect(f, h)
    \/ FallSilent(f)
    \/ CloseMembership(f)

Next ==
    \/ PlannerStep
    \/ \E f \in Nodes : NodeStep(f)
    \/ \E h \in Homes : ElectLeader(h) \/ LoseHome(h) \/ RecoverHome(h)
    \/ LoseLease
    \/ Tick

Spec == Init /\ [][Next]_vars

(***************************************************************************)
(* The rebalance ticker of the leader keeps running, its transactions end, *)
(* and time passes between them.                                           *)
(***************************************************************************)
FairSpec == Spec /\ WF_vars(PlannerStep) /\ SF_vars(Tick)

-------------------------------------------------------------------------------

(***************************************************************************)
(* A CPA node never has two plans at a time, over all terms, leaders and   *)
(* retries: it could not follow both, and both would reserve a place.      *)
(***************************************************************************)
OnePlanPerNode ==
    \A p, q \in Active(plans) : p # q => plans[p].node # plans[q].node

(***************************************************************************)
(* No more than rebalanceMaxActive moves are under way, plans of earlier   *)
(* leaders that are still executing included.                              *)
(***************************************************************************)
ActivePlansBounded == Cardinality(Active(plans)) <= MaxActive

(***************************************************************************)
(* A swap never loses one leg and keeps offering the other: while a leg is *)
(* pending its peer has neither failed nor been canceled.                  *)
(***************************************************************************)
NoHalfSwapOffered ==
    \A p, q \in PlanIds :
        plans[p].group # 0 /\ plans[p].group = plans[q].group /\ plans[p].state = "pending" =>
            plans[q].state \notin {"failed", "canceled"}

(***************************************************************************)
(* No plan is created and no move is authorised by a leader that has been  *)
(* replaced or has lost its lease since it read the loads.                 *)
(***************************************************************************)
OnlyCurrentLeaderDecides ==
    [][\A p \in PlanIds :
        plans'[p].state \in ActiveStates /\ plans'[p].state # plans[p].state =>
            valid /\ plans'[p].term = term]_vars

(***************************************************************************)
(* A move is authorised only to a Home that is live at the commit, for a   *)
(* CPA node that is still beating at the plan's source in the plan's       *)
(* lifetime, whatever changed while the claim was being decided.           *)
(***************************************************************************)
ClaimsAreCurrent ==
    [][\A p \in PlanIds :
        plans[p].state = "pending" /\ plans'[p].state = "executing" =>
            plans[p].target \in live /\ AtSource(members, live, plans[p])]_vars

(***************************************************************************)
(* While one leader stays and its Homes stay, every plan ends: it is       *)
(* completed, fails, or is canceled, even if the CPA node never answers.   *)
(***************************************************************************)
PlansEnd ==
    <>[](valid /\ live = Homes) =>
        \A p \in PlanIds : [](plans[p].state \in ActiveStates => <>(plans[p].state \notin ActiveStates))

(***************************************************************************)
(* A CPA node that failed is not bothered again before its backoff ends:   *)
(* no other plan and no reconnection shortens the wait, only time or a     *)
(* completed move.                                                         *)
(***************************************************************************)
BackoffNotShortened ==
    [][\A f \in Nodes :
        clients'[f].wait < clients[f].wait =>
            clients'[f].wait = clients[f].wait - 1 \/ clients'[f].backoff = 0]_vars

(***************************************************************************)
(* The result of a plan is final.                                          *)
(***************************************************************************)
ResultsAreFinal ==
    [][\A p \in PlanIds :
        plans[p].state \in {"completed", "failed", "canceled"} => plans'[p].state = plans[p].state]_vars

(***************************************************************************)
(* A plan is decided by the leader in office, on members that still are    *)
(* where the plan says; its result and the wait it imposes then stand.     *)
(***************************************************************************)
DecisionsStand == OnlyCurrentLeaderDecides /\ ClaimsAreCurrent /\ ResultsAreFinal /\ BackoffNotShortened

(***************************************************************************)
(* Rounds that overlap neither plan a node twice nor exceed the limit of   *)
(* active moves.                                                           *)
(***************************************************************************)
PlansAreBounded == OnePlanPerNode /\ ActivePlansBounded
==============================================================================
