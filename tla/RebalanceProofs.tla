---------------------------- MODULE RebalanceProofs ----------------------------
(***************************************************************************)
(* Machine-checked proofs about the moves of CPA nodes between Homes, for  *)
(* any number of Homes, nodes, plans and terms and any durations.          *)
(***************************************************************************)
EXTENDS Rebalance, FiniteSetTheorems, WellFoundedInduction, TLAPS

Final == {"completed", "failed", "canceled"}
Confirmations == [pair : SUBSET (Nodes \X Members), count : Nat]
TxRecords ==
    [kind : {"settle", "plan", "fence"}, term : Nat, live : SUBSET Homes, members : [Nodes -> Members],
     plans : [PlanIds -> Plans], clients : [Nodes -> Clients], confirm : Confirmations,
     todo : SUBSET PlanIds, changed : BOOLEAN, balance : BOOLEAN, moved : [Homes -> Nat],
     claim : PlanIds \cup {0}, late : BOOLEAN]

RebalanceTypes ==
    /\ term \in Nat /\ live \in SUBSET Homes /\ members \in [Nodes -> Members]
    /\ plans \in [PlanIds -> Plans] /\ clients \in [Nodes -> Clients]
    /\ confirm \in Confirmations /\ cadence \in Nat
    /\ tx \in {NoTx} \cup TxRecords

\* What holds of a table of plans: the properties, that ids are used in ascending order,
\* and that a swap is numbered by one of its plans.
OneEach(ps) == \A p, q \in Active(ps) : p # q => ps[p].node # ps[q].node
Few(ps) == Cardinality(Active(ps)) <= MaxActive
WholeSwaps(ps) ==
    \A p, q \in PlanIds :
        ps[p].group # 0 /\ ps[p].group = ps[q].group /\ ps[p].state = "pending" =>
            ps[q].state \notin {"failed", "canceled"}
IdsAscend(ps) == \A p, q \in PlanIds : ps[p].state = "none" /\ p < q => ps[q].state = "none"
GroupsExist(ps) ==
    \A q \in PlanIds :
        ps[q].group # 0 => /\ ps[q].state # "none" /\ ps[q].group \in PlanIds
                           /\ ps[ps[q].group].state # "none"
PlansInv(ps) == OneEach(ps) /\ Few(ps) /\ WholeSwaps(ps) /\ IdsAscend(ps) /\ GroupsExist(ps)

\* What the open transaction will commit, next to the tables it started from.
FinalStays == \A p \in PlanIds : plans[p].state \in Final => tx.plans[p].state = plans[p].state
DecidedByTerm ==
    \A p \in PlanIds : tx.plans[p].state \in ActiveStates /\ tx.plans[p].state # plans[p].state
                          => tx.plans[p].term = tx.term
WaitKept(f) == tx.clients[f].wait >= clients[f].wait \/ tx.clients[f].backoff = 0
SettledOnce(f) == tx.clients[f] = clients[f] \/ \A p \in Active(tx.plans) : tx.plans[p].node # f
ClaimedAtSource(p) ==
    plans[p].state = "pending" /\ tx.plans[p].state = "executing" =>
        LET f == plans[p].node
        IN /\ p = tx.claim /\ tx.plans[p].node = f
           /\ plans[p].target \in tx.live /\ AtSource(tx.members, tx.live, plans[p])
           /\ members[f].home = tx.members[f].home /\ members[f].at = tx.members[f].at
           /\ members[f].fresh \/ tx.late

TxInv ==
    tx # NoTx =>
        /\ PlansInv(tx.plans) /\ FinalStays /\ DecidedByTerm
        /\ \A f \in Nodes : WaitKept(f)
        /\ tx.kind = "settle" => \A f \in Nodes : SettledOnce(f)
        /\ \A p \in PlanIds : ClaimedAtSource(p)

RebalanceInv == RebalanceTypes /\ PlansInv(plans) /\ TxInv

(***************************************************************************)
(* Minima and maxima.                                                      *)
(***************************************************************************)
LEMMA MaxOfTwo ==
    ASSUME NEW a, NEW b, a \in Int, b \in Int
    PROVE  Max({a, b}) \in {a, b} /\ Max({a, b}) >= a /\ Max({a, b}) >= b
<1>1. \E x \in {a, b} : \A y \in {a, b} : x >= y
  OBVIOUS
<1> QED
  BY <1>1 DEF Max

LEMMA MinOfTwo ==
    ASSUME NEW a, NEW b, a \in Int, b \in Int
    PROVE  Min({a, b}) \in {a, b}
<1>1. \E x \in {a, b} : \A y \in {a, b} : x =< y
  OBVIOUS
<1> QED
  BY <1>1 DEF Min

LEMMA FreshIdIsFree ==
    ASSUME FreeIds # {}
    PROVE  /\ FreshId \in PlanIds /\ tx.plans[FreshId].state = "none"
           /\ \A p \in PlanIds : tx.plans[p].state = "none" => FreshId <= p
<1>1. FreeIds \subseteq Nat
  BY PlanIdsAssumption DEF FreeIds
<1>2. \E x \in FreeIds : \A y \in FreeIds : x <= y
  <2>1. \E x \in FreeIds : \A y \in FreeIds : ~(<<y, x>> \in OpToRel(<, Nat))
    BY <1>1, NatLessThanWellFounded, WFMin
  <2>2. PICK x \in FreeIds : \A y \in FreeIds : ~(<<y, x>> \in OpToRel(<, Nat))
    BY <2>1
  <2>3. ASSUME NEW y \in FreeIds PROVE x <= y
    <3>1. x \in Nat /\ y \in Nat
      BY <1>1
    <3>2. <<y, x>> \in Nat \X Nat => ~(y < x)
      BY <2>2 DEF OpToRel
    <3> QED
      BY <3>1, <3>2
  <2> QED
    BY <2>3
<1>3. FreshId \in FreeIds /\ \A y \in FreeIds : FreshId <= y
  BY <1>2 DEF FreshId, Min
<1> QED
  BY <1>3 DEF FreeIds

(***************************************************************************)
(* finishRebalancePlan: what ends, and whose wait changes.                 *)
(***************************************************************************)
LEMMA FinishedShape ==
    ASSUME NEW ps \in [PlanIds -> Plans], NEW p \in PlanIds, ps[p].state \in ActiveStates,
           NEW state \in Final
    PROVE  LET qs == FinishedPlans(ps, p, state)
           IN /\ qs \in [PlanIds -> Plans] /\ qs[p].state = state
              /\ \A q \in PlanIds :
                    /\ qs[q].node = ps[q].node /\ qs[q].group = ps[q].group /\ qs[q].term = ps[q].term
                    /\ \/ qs[q] = ps[q] /\ q # p
                       \/ ps[q].state \in ActiveStates /\ qs[q].state \in Final
                    /\ q # p => qs[q].state = IF q \in CanceledWith(ps, p, state)
                                              THEN "canceled" ELSE ps[q].state
              /\ \A q \in CanceledWith(ps, p, state) : q \in PlanIds /\ q # p /\ ps[q].state = "pending"
<1> DEFINE qs == FinishedPlans(ps, p, state)
<1>1. \A q \in CanceledWith(ps, p, state) : q \in PlanIds /\ q # p /\ ps[q].state = "pending"
  BY DEF CanceledWith
<1>2. ASSUME NEW r \in Plans, NEW s \in Final
      PROVE  LET x == [r EXCEPT !.state = s]
             IN x \in Plans /\ x.state = s /\ x.node = r.node /\ x.group = r.group /\ x.term = r.term
  BY DEF Plans, States, Final
<1>3. \A q \in PlanIds : qs[q] = IF q = p THEN [ps[q] EXCEPT !.state = state]
                                 ELSE IF q \in CanceledWith(ps, p, state)
                                 THEN [ps[q] EXCEPT !.state = "canceled"]
                                 ELSE ps[q]
  BY DEF FinishedPlans
<1>4. qs = [q \in PlanIds |-> qs[q]]
  BY DEF FinishedPlans
<1> HIDE DEF qs
<1>5. ASSUME NEW q \in PlanIds
      PROVE  /\ qs[q] \in Plans
             /\ qs[q].node = ps[q].node /\ qs[q].group = ps[q].group /\ qs[q].term = ps[q].term
             /\ \/ qs[q] = ps[q] /\ q # p
                \/ ps[q].state \in ActiveStates /\ qs[q].state \in Final
             /\ q = p => qs[q].state = state
             /\ q # p => qs[q].state = IF q \in CanceledWith(ps, p, state)
                                       THEN "canceled" ELSE ps[q].state
  <2>1. CASE q = p
    <3>1. qs[q] = [ps[q] EXCEPT !.state = state] /\ state \in Final /\ ps[q] \in Plans
      BY <1>3, <2>1
    <3>2. state \in Final /\ ps[q] \in Plans
      OBVIOUS
    <3>3. /\ qs[q] \in Plans /\ qs[q].state = state
          /\ qs[q].node = ps[q].node /\ qs[q].group = ps[q].group /\ qs[q].term = ps[q].term
      BY <1>2, <3>1, <3>2
    <3> QED
      BY <2>1, <3>3
  <2>2. CASE q # p /\ q \in CanceledWith(ps, p, state)
    <3>1. "canceled" \in Final /\ "pending" \in ActiveStates
      BY DEF Final, ActiveStates
    <3>2. qs[q] = [ps[q] EXCEPT !.state = "canceled"]
      BY <1>3, <2>2
    <3> QED
      BY <1>1, <1>2, <2>2, <3>1, <3>2
  <2>3. CASE q # p /\ q \notin CanceledWith(ps, p, state)
    BY <1>3, <2>3
  <2> QED
    BY <2>1, <2>2, <2>3
<1>6. qs \in [PlanIds -> Plans] /\ qs[p].state = state
  BY <1>4, <1>5
<1> QED
  BY <1>1, <1>5, <1>6 DEF qs

LEMMA ActiveIsFinite ==
    ASSUME NEW ps
    PROVE  Active(ps) \subseteq PlanIds /\ IsFiniteSet(Active(ps)) /\ Cardinality(Active(ps)) \in Nat
  BY PlanIdsAssumption, FS_Subset, FS_CardinalityType DEF Active

LEMMA FinishedInv ==
    ASSUME NEW ps \in [PlanIds -> Plans], PlansInv(ps), NEW p \in PlanIds, ps[p].state \in ActiveStates,
           NEW state \in Final
    PROVE  LET qs == FinishedPlans(ps, p, state)
           IN /\ PlansInv(qs)
              /\ Active(qs) \subseteq Active(ps) \ {p}
<1> DEFINE qs == FinishedPlans(ps, p, state)
<1>1. /\ \A q \in PlanIds :
            /\ qs[q].node = ps[q].node /\ qs[q].group = ps[q].group
            /\ \/ qs[q] = ps[q] /\ q # p
               \/ ps[q].state \in ActiveStates /\ qs[q].state \in Final
            /\ q # p => qs[q].state = IF q \in CanceledWith(ps, p, state) THEN "canceled" ELSE ps[q].state
      /\ qs[p].state = state
  BY FinishedShape
<1> HIDE DEF qs
<1>2. Active(qs) \subseteq Active(ps) \ {p}
  BY <1>1 DEF Active, Final, ActiveStates
<1>3. OneEach(qs)
  BY <1>1, <1>2 DEF OneEach, PlansInv, Active
<1>4. Few(qs)
  <2>1. Cardinality(Active(qs)) <= Cardinality(Active(ps))
    BY <1>2, ActiveIsFinite, FS_Subset
  <2> QED
    BY <2>1, ActiveIsFinite, BoundsAssumption DEF Few, PlansInv
<1>5. WholeSwaps(qs)
  <2> SUFFICES ASSUME NEW a \in PlanIds, NEW b \in PlanIds, qs[a].group # 0,
                      qs[a].group = qs[b].group, qs[a].state = "pending",
                      qs[b].state \in {"failed", "canceled"}
               PROVE  FALSE
    BY DEF WholeSwaps
  <2>1. ps[a].group # 0 /\ ps[a].group = ps[b].group
    BY <1>1
  <2>2. ps[a].state = "pending" /\ a # p /\ a \notin CanceledWith(ps, p, state)
    BY <1>1 DEF Final
  <2>3. ps[b].state \notin {"failed", "canceled"}
    BY <2>1, <2>2 DEF PlansInv, WholeSwaps
  <2>4. b = p \/ b \in CanceledWith(ps, p, state)
    BY <1>1, <2>3
  <2>5. ps[b].group = ps[p].group /\ state \in {"failed", "canceled"}
    BY <1>1, <2>4 DEF CanceledWith
  <2> QED
    BY <2>1, <2>2, <2>5 DEF CanceledWith
<1>6. ASSUME NEW q \in PlanIds PROVE qs[q].state = "none" <=> ps[q].state = "none"
  BY <1>1 DEF Final, ActiveStates
<1>7. IdsAscend(qs) /\ GroupsExist(qs)
  BY <1>1, <1>6 DEF IdsAscend, GroupsExist, PlansInv
<1> QED
  BY <1>2, <1>3, <1>4, <1>5, <1>7 DEF PlansInv, qs

LEMMA ClientAfterShape ==
    ASSUME NEW c \in Clients, NEW state \in Final, NEW swap
    PROVE  LET d == ClientAfter(c, state, swap)
           IN d \in Clients /\ d.at = c.at /\ (d.wait >= c.wait \/ d.backoff = 0)
<1> DEFINE backoff == IF state = "failed" THEN Min({Max({MinBackoff, 2 * c.backoff}), MaxBackoff})
                      ELSE IF state = "completed" THEN 0 ELSE c.backoff
           opt == IF state = "completed" /\ swap THEN SwapCooldown ELSE c.opt
           wait == IF state = "completed" THEN Cooldown
                   ELSE Max({c.wait, IF state = "failed" THEN backoff ELSE Interval})
           d == [c EXCEPT !.backoff = backoff, !.opt = opt, !.wait = wait]
<1>1. c.at \in Nat /\ c.wait \in Nat /\ c.opt \in Nat /\ c.backoff \in Nat
  BY DEF Clients
<1>2. backoff \in Nat
  <2> DEFINE twice == 2 * c.backoff
             larger == Max({MinBackoff, twice})
  <2>1. twice \in Nat /\ MinBackoff \in Nat /\ MaxBackoff \in Nat
    BY <1>1, BoundsAssumption
  <2> HIDE DEF twice
  <2>2. larger \in Nat
    <3>1. MinBackoff \in Int /\ twice \in Int
      BY <2>1
    <3>2. Max({MinBackoff, twice}) \in {MinBackoff, twice}
      BY <3>1, MaxOfTwo
    <3> QED
      BY <2>1, <3>2
  <2> HIDE DEF larger
  <2>3. Min({larger, MaxBackoff}) \in Nat
    BY <2>1, <2>2, MinOfTwo
  <2>4. Min({Max({MinBackoff, 2 * c.backoff}), MaxBackoff}) \in Nat
    BY <2>3 DEF larger, twice
  <2> QED
    BY <1>1, <2>4
<1>3. opt \in Nat
  BY <1>1, BoundsAssumption
<1>4. state = "completed" => backoff = 0
  OBVIOUS
<1> HIDE DEF backoff
<1>5. wait \in Nat /\ (wait >= c.wait \/ backoff = 0)
  <2> DEFINE other == IF state = "failed" THEN backoff ELSE Interval
  <2>1. other \in Nat /\ Cooldown \in Nat
    BY <1>2, BoundsAssumption
  <2> HIDE DEF other
  <2> DEFINE now == c.wait
  <2>0. now \in Nat
    BY <1>1
  <2> HIDE DEF now
  <2>2. Max({now, other}) \in Nat /\ Max({now, other}) >= now
    BY <2>0, <2>1, MaxOfTwo
  <2> QED
    BY <1>4, <2>1, <2>2 DEF other, now
<1> HIDE DEF opt, wait
<1>6. d \in Clients /\ d.at = c.at /\ d.wait = wait /\ d.backoff = backoff
  BY <1>1, <1>2, <1>3, <1>5 DEF Clients
<1>7. ClientAfter(c, state, swap) = d
  BY DEF ClientAfter, backoff, opt, wait
<1> HIDE DEF d
<1> QED
  BY <1>5, <1>6, <1>7

LEMMA FinishedClientsShape ==
    ASSUME NEW ps \in [PlanIds -> Plans], NEW cs \in [Nodes -> Clients], NEW p \in PlanIds,
           NEW state \in Final
    PROVE  LET ds == FinishedClients(ps, cs, p, state)
           IN /\ ds \in [Nodes -> Clients]
              /\ \A f \in Nodes :
                    /\ ds[f].wait >= cs[f].wait \/ ds[f].backoff = 0
                    /\ \/ ds[f] = cs[f]
                       \/ f = ps[p].node
                       \/ \E q \in CanceledWith(ps, p, state) : ps[q].node = f
<1> DEFINE ds == FinishedClients(ps, cs, p, state)
<1>1. ds = [f \in Nodes |-> ds[f]]
  BY DEF FinishedClients
<1>2. ASSUME NEW f \in Nodes
      PROVE  /\ ds[f] \in Clients /\ (ds[f].wait >= cs[f].wait \/ ds[f].backoff = 0)
             /\ \/ ds[f] = cs[f]
                \/ f = ps[p].node
                \/ \E q \in CanceledWith(ps, p, state) : ps[q].node = f
  <2>0. cs[f] \in Clients /\ "canceled" \in Final
    BY DEF Final
  <2>1. CASE f = ps[p].node
    <3>1. ds[f] = ClientAfter(cs[f], state, ps[p].group # 0)
      BY <2>1 DEF FinishedClients
    <3> QED
      BY <2>0, <2>1, <3>1, ClientAfterShape
  <2>2. CASE f # ps[p].node /\ \E q \in CanceledWith(ps, p, state) : ps[q].node = f
    <3>1. ds[f] = ClientAfter(cs[f], "canceled", TRUE)
      BY <2>2 DEF FinishedClients
    <3>2. LET d == ClientAfter(cs[f], "canceled", TRUE)
          IN d \in Clients /\ (d.wait >= cs[f].wait \/ d.backoff = 0)
      BY <2>0, ClientAfterShape
    <3> QED
      BY <2>2, <3>1, <3>2
  <2>3. CASE f # ps[p].node /\ ~\E q \in CanceledWith(ps, p, state) : ps[q].node = f
    <3>1. ds[f] = cs[f]
      BY <2>3 DEF FinishedClients
    <3>2. cs[f].wait \in Nat
      BY <2>0 DEF Clients
    <3> QED
      BY <2>0, <3>1, <3>2
  <2> QED
    BY <2>1, <2>2, <2>3
<1> HIDE DEF ds
<1>3. ds \in [Nodes -> Clients]
  BY <1>1, <1>2
<1> QED
  BY <1>2, <1>3 DEF ds

(***************************************************************************)
(* New plans, and plans that go on.                                        *)
(***************************************************************************)
LEMMA PlansSame ==
    ASSUME NEW ps, NEW qs, PlansInv(ps),
           \A p \in PlanIds : qs[p].state = ps[p].state /\ qs[p].node = ps[p].node
                              /\ qs[p].group = ps[p].group
    PROVE  PlansInv(qs)
<1>1. Active(qs) = Active(ps)
  BY DEF Active
<1>2. OneEach(qs) /\ Few(qs)
  BY <1>1 DEF PlansInv, OneEach, Few, Active
<1>3. WholeSwaps(qs) /\ IdsAscend(qs) /\ GroupsExist(qs)
  BY DEF PlansInv, WholeSwaps, IdsAscend, GroupsExist
<1> QED
  BY <1>2, <1>3 DEF PlansInv

LEMMA PlanAddedInv ==
    ASSUME NEW ps \in [PlanIds -> Plans], PlansInv(ps), NEW id \in PlanIds, ps[id].state = "none",
           \A p \in PlanIds : ps[p].state = "none" => id <= p,
           NEW new \in Plans, new.state = "pending", new.group = 0,
           \A p \in Active(ps) : ps[p].node # new.node,
           Cardinality(Active(ps)) < MaxActive
    PROVE  PlansInv([ps EXCEPT ![id] = new])
<1> DEFINE qs == [ps EXCEPT ![id] = new]
<1>1. /\ qs[id] = new
      /\ \A p \in PlanIds : p # id => qs[p] = ps[p]
  OBVIOUS
<1> HIDE DEF qs
<1>2. Active(qs) = Active(ps) \cup {id} /\ id \notin Active(ps)
  BY <1>1 DEF Active, ActiveStates
<1>3. OneEach(qs)
  BY <1>1, <1>2 DEF PlansInv, OneEach, Active
<1>4. Few(qs)
  <2>1. Cardinality(Active(qs)) = Cardinality(Active(ps)) + 1
    BY <1>2, ActiveIsFinite, FS_AddElement
  <2>2. MaxActive \in Nat
    BY BoundsAssumption
  <2> QED
    BY <2>1, <2>2, ActiveIsFinite DEF Few
<1>5. WholeSwaps(qs) /\ GroupsExist(qs)
  BY <1>1 DEF PlansInv, WholeSwaps, GroupsExist
<1>6. IdsAscend(qs)
  BY <1>1, PlanIdsAssumption DEF PlansInv, IdsAscend
<1> QED
  BY <1>3, <1>4, <1>5, <1>6 DEF PlansInv, qs

LEMMA SwapAddedInv ==
    ASSUME NEW ps \in [PlanIds -> Plans], PlansInv(ps), NEW id \in PlanIds, ps[id].state = "none",
           Active(ps) = {}, \A p \in PlanIds : ps[p].state = "none" => id <= p,
           NEW x \in Plans, NEW y \in Plans, x.state = "pending", y.state = "pending",
           x.group = id, y.group = id, x.node # y.node, NEW qs,
           qs = [p \in PlanIds |-> IF p = id THEN x ELSE IF p = id + 1 THEN y ELSE ps[p]]
    PROVE  /\ PlansInv(qs) /\ qs \in [PlanIds -> Plans]
           /\ \A p \in PlanIds : qs[p] = ps[p] \/ (ps[p].state = "none" /\ qs[p] \in {x, y})
<1>1. /\ qs[id] = x
      /\ \A p \in PlanIds : p = id + 1 => qs[p] = y /\ p # id
      /\ \A p \in PlanIds : p # id /\ p # id + 1 => qs[p] = ps[p]
      /\ qs \in [PlanIds -> Plans]
  BY PlanIdsAssumption
<1>2. \A p \in PlanIds : p = id + 1 => ps[p].state = "none"
  BY PlanIdsAssumption DEF PlansInv, IdsAscend
<1>3. \A p \in PlanIds : qs[p] = ps[p] \/ (ps[p].state = "none" /\ qs[p] \in {x, y})
  BY <1>1, <1>2
<1>4. \A p \in PlanIds : ps[p].state \notin ActiveStates
  BY DEF Active
<1>5. Active(qs) \subseteq {id, id + 1}
  BY <1>1, <1>4 DEF Active
<1>6. OneEach(qs)
  BY <1>1, <1>5 DEF OneEach, Active
<1>7. Few(qs)
  <2>1. IsFiniteSet({id, id + 1}) /\ Cardinality({id, id + 1}) = 2
    <3> DEFINE next == id + 1
    <3>1. next \notin {id}
      BY PlanIdsAssumption
    <3> HIDE DEF next
    <3>2. IsFiniteSet({id}) /\ Cardinality({id}) = 1
      BY FS_Singleton
    <3>3. IsFiniteSet({id} \cup {next}) /\ Cardinality({id} \cup {next}) = 2
      BY <3>1, <3>2, FS_AddElement
    <3>4. {id, id + 1} = {id} \cup {next}
      BY DEF next
    <3> QED
      BY <3>3, <3>4
  <2>2. Cardinality(Active(qs)) <= 2
    BY <1>5, <2>1, FS_Subset
  <2>3. MaxActive \in Nat /\ MaxActive >= 2
    BY BoundsAssumption, MaxActiveAssumption
  <2> QED
    BY <2>2, <2>3, ActiveIsFinite DEF Few
<1>8. \A p \in PlanIds : ps[p].group # id
  <2>1. id # 0
    BY PlanIdsAssumption
  <2> QED
    BY <2>1 DEF PlansInv, GroupsExist
<1>9. WholeSwaps(qs)
  <2> SUFFICES ASSUME NEW p \in PlanIds, NEW q \in PlanIds, qs[p].group = qs[q].group,
                      qs[p].state = "pending", qs[q].state \in {"failed", "canceled"}
               PROVE  FALSE
    BY DEF WholeSwaps
  <2>1. qs[p] \in {x, y}
    BY <1>3, <1>4 DEF ActiveStates
  <2>2. qs[q] = ps[q]
    BY <1>3
  <2> QED
    BY <1>8, <2>1, <2>2
<1>10. GroupsExist(qs)
  <2> SUFFICES ASSUME NEW q \in PlanIds, qs[q].group # 0
               PROVE  qs[q].state # "none" /\ qs[q].group \in PlanIds /\ qs[qs[q].group].state # "none"
    BY DEF GroupsExist
  <2>1. CASE qs[q] = ps[q]
    <3>1. ps[q].state # "none" /\ ps[q].group \in PlanIds /\ ps[ps[q].group].state # "none"
      BY <2>1 DEF PlansInv, GroupsExist
    <3> QED
      BY <1>3, <2>1, <3>1
  <2>2. CASE qs[q] \in {x, y}
    BY <1>1, <2>2
  <2> QED
    BY <1>3, <2>1, <2>2
<1>11. IdsAscend(qs)
  <2> SUFFICES ASSUME NEW p \in PlanIds, NEW q \in PlanIds, qs[p].state = "none", p < q
               PROVE  qs[q].state = "none"
    BY DEF IdsAscend
  <2>1. qs[p] = ps[p]
    BY <1>3
  <2>2. ps[q].state = "none"
    BY <2>1 DEF PlansInv, IdsAscend
  <2>3. q # id /\ q # id + 1
    <3>1. ps[p].state = "none" /\ p \in Nat /\ q \in Nat /\ id \in Nat
      BY <2>1, PlanIdsAssumption
    <3>2. p # id
      BY <1>1
    <3>3. id <= p
      BY <3>1
    <3> QED
      BY <3>1, <3>2, <3>3
  <2> QED
    BY <1>1, <2>2, <2>3
<1> QED
  BY <1>1, <1>3, <1>6, <1>7, <1>9, <1>10, <1>11 DEF PlansInv

LEMMA ClaimedPlanInv ==
    ASSUME NEW ps \in [PlanIds -> Plans], PlansInv(ps), NEW p \in PlanIds, ps[p].state = "pending"
    PROVE  LET qs == [ps EXCEPT ![p].state = "executing", ![p].ttl = PlanTTL]
           IN /\ PlansInv(qs) /\ qs \in [PlanIds -> Plans]
              /\ qs[p].state = "executing" /\ qs[p].node = ps[p].node /\ qs[p].term = ps[p].term
              /\ \A q \in PlanIds : q # p => qs[q] = ps[q]
<1> DEFINE new == [ps[p] EXCEPT !.state = "executing", !.ttl = PlanTTL]
           qs == [ps EXCEPT ![p] = new]
<1>1. /\ new \in Plans /\ new.state = "executing" /\ new.node = ps[p].node
      /\ new.term = ps[p].term /\ new.group = ps[p].group
  BY BoundsAssumption DEF Plans, States
<1>2. [ps EXCEPT ![p].state = "executing", ![p].ttl = PlanTTL] = qs
  OBVIOUS
<1> HIDE DEF new
<1>3. qs[p] = new /\ (\A q \in PlanIds : q # p => qs[q] = ps[q]) /\ qs \in [PlanIds -> Plans]
  BY <1>1
<1> HIDE DEF qs
<1>4. Active(qs) = Active(ps)
  BY <1>1, <1>3 DEF Active, ActiveStates
<1>5. \A q \in PlanIds : qs[q].node = ps[q].node /\ qs[q].group = ps[q].group
                         /\ (qs[q].state = ps[q].state \/ (q = p /\ qs[q].state = "executing"))
  BY <1>1, <1>3
<1>6. OneEach(qs) /\ Few(qs)
  <2>1. \A q \in Active(ps) : q \in PlanIds
    BY DEF Active
  <2>2. OneEach(qs)
    BY <1>4, <1>5, <2>1 DEF PlansInv, OneEach
  <2> QED
    BY <1>4, <2>2 DEF PlansInv, Few
<1>7. WholeSwaps(qs) /\ IdsAscend(qs)
  BY <1>5 DEF PlansInv, WholeSwaps, IdsAscend
<1>8. GroupsExist(qs)
  BY <1>5 DEF PlansInv, GroupsExist
<1> QED
  BY <1>1, <1>2, <1>3, <1>6, <1>7, <1>8 DEF PlansInv

(***************************************************************************)
(* The open transaction.                                                   *)
(***************************************************************************)
LEMMA TxShape ==
    ASSUME RebalanceTypes
    PROVE  /\ tx = NoTx \/ tx \in TxRecords
           /\ tx \in TxRecords => /\ tx # NoTx /\ tx.kind \in {"settle", "plan", "fence"}
                                  /\ tx.term \in Nat /\ tx.live \in SUBSET Homes
                                  /\ tx.members \in [Nodes -> Members]
                                  /\ tx.plans \in [PlanIds -> Plans]
                                  /\ tx.clients \in [Nodes -> Clients]
                                  /\ tx.confirm \in Confirmations
                                  /\ tx.moved \in [Homes -> Nat]
           /\ tx.kind \in {"settle", "plan", "fence"} => tx \in TxRecords
<1>1. NoTx.kind = "none"
  BY DEF NoTx
<1>2. tx = NoTx \/ tx \in TxRecords
  BY DEF RebalanceTypes
<1>3. tx \in TxRecords => tx.kind \in {"settle", "plan", "fence"}
  BY DEF TxRecords
<1>4. tx \in TxRecords => /\ tx.term \in Nat /\ tx.live \in SUBSET Homes
                          /\ tx.members \in [Nodes -> Members] /\ tx.plans \in [PlanIds -> Plans]
                          /\ tx.clients \in [Nodes -> Clients] /\ tx.confirm \in Confirmations
                          /\ tx.moved \in [Homes -> Nat]
  BY DEF TxRecords
<1> QED
  BY <1>1, <1>2, <1>3, <1>4

\* The transaction goes on as d, with this working set.
Updated(d, t, kind, ps, cs) ==
    /\ d \in TxRecords /\ d.kind = kind /\ d.plans = ps /\ d.clients = cs
    /\ d.term = t.term /\ d.live = t.live /\ d.members = t.members
    /\ d.claim = t.claim /\ d.late = t.late

LEMMA TodoUpdate ==
    ASSUME NEW t \in TxRecords, NEW rest \in SUBSET PlanIds
    PROVE  Updated([t EXCEPT !.todo = rest], t, t.kind, t.plans, t.clients)
  BY DEF TxRecords, Updated

LEMMA SettleUpdate ==
    ASSUME NEW t \in TxRecords, NEW rest \in SUBSET PlanIds, NEW ps \in [PlanIds -> Plans],
           NEW cs \in [Nodes -> Clients]
    PROVE  Updated([t EXCEPT !.todo = rest, !.changed = TRUE, !.plans = ps, !.clients = cs], t, t.kind, ps, cs)
  BY DEF TxRecords, Updated

LEMMA KindUpdate ==
    ASSUME NEW t \in TxRecords, NEW kind \in {"plan", "fence"}, NEW balance, balance \in BOOLEAN
    PROVE  Updated([t EXCEPT !.kind = kind, !.balance = balance], t, kind, t.plans, t.clients)
  BY DEF TxRecords, Updated

LEMMA MoveUpdate ==
    ASSUME NEW t \in TxRecords, NEW ps \in [PlanIds -> Plans], NEW moves \in [Homes -> Nat]
    PROVE  Updated([t EXCEPT !.plans = ps, !.moved = moves], t, t.kind, ps, t.clients)
  BY DEF TxRecords, Updated

LEMMA ConfirmUpdate ==
    ASSUME NEW t \in TxRecords, NEW conf \in Confirmations
    PROVE  Updated([t EXCEPT !.kind = "fence", !.confirm = conf], t, "fence", t.plans, t.clients)
  BY DEF TxRecords, Updated

LEMMA SwapUpdate ==
    ASSUME NEW t \in TxRecords, NEW conf \in Confirmations, NEW ps \in [PlanIds -> Plans]
    PROVE  Updated([t EXCEPT !.kind = "fence", !.confirm = conf, !.plans = ps], t, "fence", ps, t.clients)
  BY DEF TxRecords, Updated

LEMMA MemberShape ==
    ASSUME NEW m \in Members
    PROVE  m.home \in Homes \cup {NoLeader} /\ m.at \in Nat /\ m.fresh \in BOOLEAN
  BY DEF Members

LEMMA ClientShape ==
    ASSUME NEW c \in Clients
    PROVE  c.at \in Nat /\ c.wait \in Nat /\ c.opt \in Nat /\ c.backoff \in Nat
  BY DEF Clients

LEMMA CountedShape ==
    ASSUME NEW ms, NEW hs, NEW f \in Counted(ms, hs)
    PROVE  f \in Nodes /\ ms[f].fresh /\ ms[f].home \in hs
  BY DEF Counted

\* The transaction is not disturbed by what changes around it.
LEMMA TxCarried ==
    ASSUME RebalanceInv, UNCHANGED <<plans, clients>>,
           \/ tx = NoTx /\ tx' = NoTx
           \/ /\ tx # NoTx
              /\ tx'.kind \in {tx.kind, "plan", "fence"}
              /\ tx'.plans = tx.plans /\ tx'.clients = tx.clients
              /\ tx'.term = tx.term /\ tx'.live = tx.live /\ tx'.members = tx.members
              /\ tx'.claim = tx.claim /\ (tx.late => tx'.late)
              /\ \A p \in PlanIds :
                    plans[p].state = "pending" /\ tx.plans[p].state = "executing" =>
                        LET f == plans[p].node
                        IN /\ members'[f].home = members[f].home /\ members'[f].at = members[f].at
                           /\ members[f].fresh => members'[f].fresh \/ tx'.late
    PROVE  TxInv'
<1>1. CASE tx = NoTx /\ tx' = NoTx
  BY <1>1 DEF TxInv
<1>2. CASE tx # NoTx /\ ~(tx' = NoTx)
  <2> USE <1>2
  <2>1. /\ tx'.kind \in {tx.kind, "plan", "fence"}
        /\ tx'.plans = tx.plans /\ tx'.clients = tx.clients
        /\ tx'.term = tx.term /\ tx'.live = tx.live /\ tx'.members = tx.members
        /\ tx'.claim = tx.claim /\ (tx.late => tx'.late)
        /\ \A p \in PlanIds :
                plans[p].state = "pending" /\ tx.plans[p].state = "executing" =>
                    LET f == plans[p].node
                    IN /\ members'[f].home = members[f].home /\ members'[f].at = members[f].at
                       /\ members[f].fresh => members'[f].fresh \/ tx'.late
    OBVIOUS
  <2>2. /\ PlansInv(tx.plans) /\ FinalStays /\ DecidedByTerm
        /\ \A f \in Nodes : WaitKept(f)
        /\ tx.kind = "settle" => \A f \in Nodes : SettledOnce(f)
        /\ \A p \in PlanIds : ClaimedAtSource(p)
    BY DEF RebalanceInv, TxInv
  <2>3. PlansInv(tx.plans)'
    BY <2>1, <2>2
  <2>4. FinalStays' /\ DecidedByTerm'
    BY <2>1, <2>2 DEF FinalStays, DecidedByTerm
  <2>5. \A f \in Nodes : WaitKept(f)'
    BY <2>1, <2>2 DEF WaitKept
  <2>6. (tx.kind = "settle" => \A f \in Nodes : SettledOnce(f))'
    BY <2>1, <2>2 DEF SettledOnce
  <2>7. ASSUME NEW p \in PlanIds PROVE ClaimedAtSource(p)'
    <3>1. ClaimedAtSource(p)
      BY <2>2
    <3> SUFFICES ASSUME plans[p].state = "pending", tx.plans[p].state = "executing"
                 PROVE  LET f == plans[p].node
                        IN /\ p = tx'.claim /\ tx'.plans[p].node = f
                           /\ plans[p].target \in tx'.live /\ AtSource(tx'.members, tx'.live, plans[p])
                           /\ members'[f].home = tx'.members[f].home
                           /\ members'[f].at = tx'.members[f].at
                           /\ members'[f].fresh \/ tx'.late
      BY <2>1 DEF ClaimedAtSource
    <3>2. LET f == plans[p].node
          IN /\ p = tx.claim /\ tx.plans[p].node = f
             /\ plans[p].target \in tx.live /\ AtSource(tx.members, tx.live, plans[p])
             /\ members[f].home = tx.members[f].home /\ members[f].at = tx.members[f].at
             /\ members[f].fresh \/ tx.late
      BY <3>1 DEF ClaimedAtSource
    <3> QED
      BY <2>1, <3>2
  <2> QED
    BY <2>3, <2>4, <2>5, <2>6, <2>7 DEF TxInv
<1>3. CASE tx' = NoTx
  BY <1>3 DEF TxInv
<1> QED
  BY <1>1, <1>2, <1>3

(***************************************************************************)
(* The world around the rebalancer.                                        *)
(***************************************************************************)
\* A plan that is being claimed is pinned, and its node was counted.
LEMMA ClaimIsPinned ==
    ASSUME RebalanceInv, tx # NoTx, NEW p \in PlanIds, plans[p].state = "pending",
           tx.plans[p].state = "executing"
    PROVE  Pinned(plans[p].node) /\ plans[p].node \in Counted(tx.members, tx.live)
<1>1. p = tx.claim /\ tx.plans[p].node = plans[p].node /\ AtSource(tx.members, tx.live, plans[p])
  BY DEF RebalanceInv, TxInv, ClaimedAtSource
<1>2. p # 0
  BY PlanIdsAssumption
<1> QED
  BY <1>1, <1>2 DEF Pinned, AtSource

LEMMA MembersInv ==
    ASSUME RebalanceInv, NEW f \in Nodes,
           (\E h \in Homes : Connect(f, h)) \/ FallSilent(f) \/ CloseMembership(f)
    PROVE  RebalanceInv'
<1>1. RebalanceTypes
  BY DEF RebalanceInv
<1>2. UNCHANGED <<term, leader, valid, live, plans, clients, confirm, cadence>>
  BY DEF Connect, FallSilent, CloseMembership
<1>3. /\ members' \in [Nodes -> Members]
      /\ \A g \in Nodes : g # f => members'[g] = members[g]
  <2>1. members[f] \in Members
    BY <1>1 DEF RebalanceTypes
  <2>2. ASSUME NEW h \in Homes, Connect(f, h)
        PROVE  /\ members' \in [Nodes -> Members]
               /\ \A g \in Nodes : g # f => members'[g] = members[g]
    <3> DEFINE new == [home |-> h, at |-> members[f].at + 1, fresh |-> TRUE]
    <3>1. new \in Members
      BY <2>1, MemberShape DEF Members
    <3>2. members' = [members EXCEPT ![f] = new]
      BY <2>2 DEF Connect
    <3> HIDE DEF new
    <3> QED
      BY <1>1, <3>1, <3>2 DEF RebalanceTypes
  <2>3. ASSUME FallSilent(f)
        PROVE  /\ members' \in [Nodes -> Members]
               /\ \A g \in Nodes : g # f => members'[g] = members[g]
    <3> DEFINE new == [members[f] EXCEPT !.fresh = FALSE]
    <3>1. new \in Members
      BY <2>1 DEF Members
    <3>2. members' = [members EXCEPT ![f] = new]
      BY <2>3 DEF FallSilent
    <3> HIDE DEF new
    <3> QED
      BY <1>1, <3>1, <3>2 DEF RebalanceTypes
  <2>4. ASSUME CloseMembership(f)
        PROVE  /\ members' \in [Nodes -> Members]
               /\ \A g \in Nodes : g # f => members'[g] = members[g]
    <3> DEFINE new == [members[f] EXCEPT !.home = NoLeader]
    <3>1. new \in Members
      BY <2>1 DEF Members
    <3>2. members' = [members EXCEPT ![f] = new]
      BY <2>4 DEF CloseMembership
    <3> HIDE DEF new
    <3> QED
      BY <1>1, <3>1, <3>2 DEF RebalanceTypes
  <2> QED
    BY <2>2, <2>3, <2>4
<1>4. \/ tx' = tx
      \/ tx # NoTx /\ tx' = [tx EXCEPT !.late = TRUE]
  BY DEF Connect, FallSilent, CloseMembership, Late
<1>5. /\ tx' \in {NoTx} \cup TxRecords
      /\ tx = NoTx => tx' = NoTx
      /\ tx # NoTx => /\ tx'.kind = tx.kind /\ tx'.plans = tx.plans /\ tx'.clients = tx.clients
                      /\ tx'.term = tx.term /\ tx'.live = tx.live /\ tx'.members = tx.members
                      /\ tx'.claim = tx.claim /\ (tx.late => tx'.late)
                      /\ tx' = [tx EXCEPT !.late = TRUE] => tx'.late
  <2>1. CASE tx' = tx
    <3>1. tx # NoTx => tx \in TxRecords
      BY <1>1, TxShape
    <3>2. tx # NoTx /\ tx' = [tx EXCEPT !.late = TRUE] => tx'.late
      BY <3>1 DEF TxRecords
    <3> QED
      BY <1>1, <2>1, <3>2 DEF RebalanceTypes
  <2>2. CASE tx # NoTx /\ tx' = [tx EXCEPT !.late = TRUE]
    <3>1. tx \in TxRecords
      BY <1>1, <2>2, TxShape
    <3> QED
      BY <2>2, <3>1 DEF TxRecords
  <2> QED
    BY <1>4, <2>1, <2>2
<1>6. ASSUME NEW p \in PlanIds, tx # NoTx, plans[p].state = "pending", tx.plans[p].state = "executing"
      PROVE  LET g == plans[p].node
             IN /\ members'[g].home = members[g].home /\ members'[g].at = members[g].at
                /\ members[g].fresh => members'[g].fresh \/ tx'.late
  <2>1. Pinned(plans[p].node) /\ plans[p].node \in Counted(tx.members, tx.live)
    BY <1>6, ClaimIsPinned
  <2>2. plans[p].node \in Nodes
    BY <2>1, CountedShape
  <2>3. CASE plans[p].node # f
    BY <1>3, <2>2, <2>3
  <2>4. CASE plans[p].node = f
    <3>1. FallSilent(f)
      BY <2>1, <2>4 DEF Connect, CloseMembership
    <3>2. tx' = [tx EXCEPT !.late = TRUE]
      BY <1>6, <2>1, <2>4, <3>1 DEF FallSilent, Late
    <3>3. members[f] \in Members
      BY <1>1 DEF RebalanceTypes
    <3>4. members'[f] = [members[f] EXCEPT !.fresh = FALSE]
      BY <1>1, <3>1 DEF FallSilent, RebalanceTypes
    <3>5. members'[f].home = members[f].home /\ members'[f].at = members[f].at
      BY <3>3, <3>4 DEF Members
    <3> QED
      BY <1>5, <1>6, <2>4, <3>2, <3>5
  <2> QED
    BY <2>3, <2>4
<1>7. TxInv'
  BY <1>2, <1>5, <1>6, TxCarried
<1>8. RebalanceTypes'
  BY <1>1, <1>2, <1>3, <1>5 DEF RebalanceTypes
<1>9. PlansInv(plans)'
  BY <1>2 DEF RebalanceInv
<1> QED
  BY <1>7, <1>8, <1>9 DEF RebalanceInv

LEMMA HomesInv ==
    ASSUME RebalanceInv,
           \/ \E h \in Homes : ElectLeader(h) \/ LoseHome(h) \/ RecoverHome(h)
           \/ LoseLease
           \/ \E f \in Nodes, p \in PlanIds : Instruct(f, p)
    PROVE  RebalanceInv'
<1>1. RebalanceTypes /\ PlansInv(plans)
  BY DEF RebalanceInv
<1>2. UNCHANGED <<members, plans, clients, confirm, tx>>
  BY DEF ElectLeader, LoseHome, RecoverHome, LoseLease, Instruct
<1>3. term' \in Nat /\ live' \in SUBSET Homes /\ cadence' \in Nat
  BY <1>1 DEF ElectLeader, LoseHome, RecoverHome, LoseLease, Instruct, Elect, Lapse, leadership,
              RebalanceTypes
<1>4. RebalanceTypes'
  BY <1>1, <1>2, <1>3 DEF RebalanceTypes
<1>5. TxInv'
  BY <1>2, TxCarried
<1>6. PlansInv(plans)'
  BY <1>1, <1>2
<1> QED
  BY <1>4, <1>5, <1>6 DEF RebalanceInv

(***************************************************************************)
(* The planner's steps.                                                    *)
(***************************************************************************)
LEMMA BeginReconcileInv ==
    ASSUME RebalanceInv, BeginReconcile
    PROVE  RebalanceInv'
<1> DEFINE new == [kind |-> "settle", term |-> term, live |-> live, members |-> members,
                   plans |-> plans, clients |-> clients, confirm |-> confirm,
                   todo |-> Active(plans), changed |-> FALSE, balance |-> FALSE,
                   moved |-> [h \in Homes |-> 0], claim |-> 0, late |-> FALSE]
<1>1. RebalanceTypes /\ PlansInv(plans)
  BY DEF RebalanceInv
<1>2. tx' = new /\ UNCHANGED <<term, leader, valid, live, members, plans, clients, confirm, cadence>>
  BY DEF BeginReconcile
<1>3. new \in TxRecords
  <2>1. Active(plans) \in SUBSET PlanIds /\ [h \in Homes |-> 0] \in [Homes -> Nat]
    BY DEF Active
  <2> QED
    BY <1>1, <2>1 DEF TxRecords, RebalanceTypes
<1>4. new.plans = plans /\ new.clients = clients
  OBVIOUS
<1> HIDE DEF new
<1>5. RebalanceTypes'
  BY <1>1, <1>2, <1>3 DEF RebalanceTypes
<1>6. PlansInv(plans)' /\ PlansInv(tx.plans)'
  BY <1>1, <1>2, <1>4
<1>7. FinalStays' /\ DecidedByTerm'
  BY <1>2, <1>4 DEF FinalStays, DecidedByTerm
<1>8. ASSUME NEW f \in Nodes PROVE WaitKept(f)' /\ SettledOnce(f)'
  <2>1. clients[f].wait \in Nat
    BY <1>1, ClientShape DEF RebalanceTypes
  <2> QED
    BY <1>2, <1>4, <2>1 DEF WaitKept, SettledOnce
<1>9. \A p \in PlanIds : ClaimedAtSource(p)'
  BY <1>2, <1>4 DEF ClaimedAtSource
<1> QED
  BY <1>5, <1>6, <1>7, <1>8, <1>9 DEF RebalanceInv, TxInv

LEMMA SettlePlanInv ==
    ASSUME RebalanceInv, NEW p \in PlanIds, SettlePlan(p)
    PROVE  RebalanceInv'
<1> DEFINE outcome == IF tx.plans[p].state \in ActiveStates THEN Outcome(p) ELSE "none"
           qs == FinishedPlans(tx.plans, p, outcome)
           ds == FinishedClients(tx.plans, tx.clients, p, outcome)
           rest == tx.todo \ {p}
<1>1. RebalanceTypes /\ PlansInv(plans) /\ tx.kind = "settle"
  BY DEF RebalanceInv, SettlePlan
<1>2. tx \in TxRecords /\ tx # NoTx /\ tx.plans \in [PlanIds -> Plans] /\ tx.clients \in [Nodes -> Clients]
  BY <1>1, TxShape
<1>3. /\ PlansInv(tx.plans) /\ FinalStays /\ DecidedByTerm
      /\ \A f \in Nodes : WaitKept(f) /\ SettledOnce(f)
      /\ \A q \in PlanIds : ClaimedAtSource(q)
  BY <1>1, <1>2 DEF RebalanceInv, TxInv
<1>4. UNCHANGED <<term, leader, valid, live, members, plans, clients, confirm, cadence>>
  BY DEF SettlePlan
<1>5. PlansInv(plans)'
  BY <1>1, <1>4
<1>6. outcome = "none" \/ (outcome \in Final /\ tx.plans[p].state \in ActiveStates)
  BY DEF Outcome, Final
<1>7. tx' = IF outcome = "none" THEN [tx EXCEPT !.todo = rest]
            ELSE [tx EXCEPT !.todo = rest, !.changed = TRUE, !.plans = qs, !.clients = ds]
  BY DEF SettlePlan
<1>8. rest \in SUBSET PlanIds
  BY <1>2 DEF TxRecords
<1> HIDE DEF outcome, rest, qs, ds
<1>9. CASE outcome = "none"
  <2>1. /\ tx' \in TxRecords /\ tx' # NoTx /\ tx'.kind = tx.kind /\ tx'.plans = tx.plans
        /\ tx'.clients = tx.clients /\ tx'.term = tx.term /\ tx'.live = tx.live
        /\ tx'.members = tx.members /\ tx'.claim = tx.claim /\ tx'.late = tx.late
    <3>1. tx' = [tx EXCEPT !.todo = rest]
      BY <1>7, <1>9
    <3>2. Updated([tx EXCEPT !.todo = rest], tx, tx.kind, tx.plans, tx.clients)
      BY <1>2, <1>8, TodoUpdate
    <3> QED
      BY <1>1, <3>1, <3>2 DEF NoTx, Updated
  <2>2. TxInv'
    BY <1>2, <1>4, <2>1, TxCarried
  <2>3. RebalanceTypes'
    BY <1>1, <1>4, <2>1 DEF RebalanceTypes
  <2> QED
    BY <1>5, <2>2, <2>3 DEF RebalanceInv
<1>10. CASE outcome # "none"
  <2>1. outcome \in Final /\ tx.plans[p].state \in ActiveStates
    BY <1>6, <1>10
  <2>2. /\ qs \in [PlanIds -> Plans] /\ PlansInv(qs) /\ Active(qs) \subseteq Active(tx.plans) \ {p}
        /\ \A q \in PlanIds :
              /\ qs[q].node = tx.plans[q].node /\ qs[q].term = tx.plans[q].term
              /\ \/ qs[q] = tx.plans[q]
                 \/ tx.plans[q].state \in ActiveStates /\ qs[q].state \in Final
              /\ q # p => qs[q].state = IF q \in CanceledWith(tx.plans, p, outcome)
                                        THEN "canceled" ELSE tx.plans[q].state
        /\ \A q \in CanceledWith(tx.plans, p, outcome) :
              q \in PlanIds /\ q # p /\ tx.plans[q].state = "pending"
    BY <1>2, <1>3, <2>1, FinishedShape, FinishedInv DEF qs
  <2>3. /\ ds \in [Nodes -> Clients]
        /\ \A f \in Nodes :
              /\ ds[f].wait >= tx.clients[f].wait \/ ds[f].backoff = 0
              /\ \/ ds[f] = tx.clients[f]
                 \/ f = tx.plans[p].node
                 \/ \E q \in CanceledWith(tx.plans, p, outcome) : tx.plans[q].node = f
    BY <1>2, <2>1, FinishedClientsShape DEF ds
  <2>4. /\ tx' \in TxRecords /\ tx' # NoTx /\ tx'.kind = tx.kind /\ tx'.plans = qs
        /\ tx'.clients = ds /\ tx'.term = tx.term /\ tx'.live = tx.live
        /\ tx'.members = tx.members /\ tx'.claim = tx.claim /\ tx'.late = tx.late
    <3>1. tx' = [tx EXCEPT !.todo = rest, !.changed = TRUE, !.plans = qs, !.clients = ds]
      BY <1>7, <1>10
    <3>2. Updated(tx', tx, tx.kind, qs, ds)
      BY <1>2, <1>8, <2>2, <2>3, <3>1, SettleUpdate
    <3> QED
      BY <1>1, <3>1, <3>2 DEF NoTx, Updated
  <2>5. RebalanceTypes'
    BY <1>1, <1>4, <2>4 DEF RebalanceTypes
  <2>6. PlansInv(tx.plans)'
    BY <2>2, <2>4
  <2>7. FinalStays'
    <3> SUFFICES ASSUME NEW q \in PlanIds, plans[q].state \in Final
                 PROVE  qs[q].state = plans[q].state
      BY <1>4, <2>4 DEF FinalStays
    <3>1. tx.plans[q].state = plans[q].state
      BY <1>3 DEF FinalStays
    <3>2. tx.plans[q].state \notin ActiveStates
      BY <3>1 DEF Final, ActiveStates
    <3> QED
      BY <2>2, <3>1, <3>2
  <2>8. DecidedByTerm'
    <3> SUFFICES ASSUME NEW q \in PlanIds, qs[q].state \in ActiveStates, qs[q].state # plans[q].state
                 PROVE  qs[q].term = tx.term
      BY <1>4, <2>4 DEF DecidedByTerm
    <3>1. qs[q] = tx.plans[q]
      BY <2>2 DEF Final, ActiveStates
    <3> QED
      BY <1>3, <3>1 DEF DecidedByTerm
  \* A node whose wait changes had one active plan, which has ended.
  <2>9. ASSUME NEW f \in Nodes PROVE WaitKept(f)' /\ SettledOnce(f)'
    <3>1. CASE ds[f] = tx.clients[f]
      <4>1. WaitKept(f)'
        BY <1>3, <1>4, <2>4, <3>1 DEF WaitKept
      <4>2. SettledOnce(f)'
        <5>1. tx.clients[f] = clients[f] \/ \A q \in Active(tx.plans) : tx.plans[q].node # f
          BY <1>3 DEF SettledOnce
        <5>2. \A q \in Active(qs) : q \in Active(tx.plans) /\ qs[q].node = tx.plans[q].node
          BY <2>2 DEF Active
        <5> QED
          BY <1>4, <2>4, <3>1, <5>1, <5>2 DEF SettledOnce
      <4> QED
        BY <4>1, <4>2
    <3>2. CASE ds[f] # tx.clients[f]
      <4>1. PICK r \in PlanIds : /\ tx.plans[r].state \in ActiveStates /\ tx.plans[r].node = f
                                 /\ r = p \/ r \in CanceledWith(tx.plans, p, outcome)
        <5>1. f = tx.plans[p].node \/ \E q \in CanceledWith(tx.plans, p, outcome) : tx.plans[q].node = f
          BY <2>3, <3>2
        <5>2. \A q \in CanceledWith(tx.plans, p, outcome) :
                  q \in PlanIds /\ tx.plans[q].state \in ActiveStates
          BY <2>2 DEF ActiveStates
        <5> QED
          BY <2>1, <5>1, <5>2
      <4>2. r \in Active(tx.plans) /\ r \notin Active(qs)
        BY <2>2, <4>1 DEF Active, ActiveStates
      <4>3. tx.clients[f] = clients[f]
        BY <1>3, <4>1, <4>2 DEF SettledOnce
      <4>4. WaitKept(f)'
        BY <1>4, <2>3, <2>4, <4>3 DEF WaitKept
      <4>5. ASSUME NEW q \in Active(qs) PROVE qs[q].node # f
        <5>1. q \in Active(tx.plans) /\ qs[q].node = tx.plans[q].node /\ q # r
          BY <2>2, <4>2 DEF Active
        <5> QED
          BY <1>3, <4>1, <4>2, <5>1 DEF PlansInv, OneEach
      <4> QED
        BY <2>4, <4>4, <4>5 DEF SettledOnce
    <3> QED
      BY <3>1, <3>2
  <2>10. ASSUME NEW q \in PlanIds PROVE ClaimedAtSource(q)'
    <3> SUFFICES ASSUME plans[q].state = "pending", qs[q].state = "executing"
                 PROVE  LET f == plans[q].node
                        IN /\ q = tx.claim /\ qs[q].node = f
                           /\ plans[q].target \in tx.live /\ AtSource(tx.members, tx.live, plans[q])
                           /\ members[f].home = tx.members[f].home
                           /\ members[f].at = tx.members[f].at
                           /\ members[f].fresh \/ tx.late
      BY <1>4, <2>4 DEF ClaimedAtSource
    <3>1. qs[q] = tx.plans[q]
      BY <2>2 DEF Final
    <3> QED
      BY <1>3, <3>1 DEF ClaimedAtSource
  <2>11. TxInv'
    BY <2>6, <2>7, <2>8, <2>9, <2>10 DEF TxInv
  <2> QED
    BY <1>5, <2>5, <2>11 DEF RebalanceInv
<1> QED
  BY <1>9, <1>10

LEMMA PlanningInv ==
    ASSUME RebalanceInv, BeginPlanning \/ NoSwap
    PROVE  RebalanceInv'
<1>1. RebalanceTypes /\ PlansInv(plans) /\ tx.kind \in {"settle", "plan"}
  BY DEF RebalanceInv, BeginPlanning, NoSwap
<1>2. tx \in TxRecords /\ tx # NoTx
  BY <1>1, TxShape
<1>3. UNCHANGED <<term, leader, valid, live, members, plans, clients, confirm, cadence>>
  BY DEF BeginPlanning, NoSwap
<1>4. \E kind \in {"plan", "fence"} : Updated(tx', tx, kind, tx.plans, tx.clients)
  <2>1. CASE BeginPlanning
    <3> DEFINE kind == IF cadence = 0 /\ Cardinality(tx.live) >= 2 THEN "plan" ELSE "fence"
               balance == (cadence = 0)
    <3>1. tx' = [tx EXCEPT !.kind = kind, !.balance = balance] /\ kind \in {"plan", "fence"}
          /\ balance \in BOOLEAN
      BY <2>1 DEF BeginPlanning
    <3> HIDE DEF kind, balance
    <3>2. Updated(tx', tx, kind, tx.plans, tx.clients)
      BY <1>2, <3>1, KindUpdate
    <3> QED
      BY <3>1, <3>2
  <2>2. CASE NoSwap
    <3> DEFINE conf == [pair |-> NoPair, count |-> 0]
    <3>1. tx' = [tx EXCEPT !.kind = "fence", !.confirm = conf]
      BY <2>2 DEF NoSwap
    <3>2. conf \in Confirmations
      BY DEF Confirmations, NoPair
    <3> HIDE DEF conf
    <3>3. Updated(tx', tx, "fence", tx.plans, tx.clients)
      BY <1>2, <3>1, <3>2, ConfirmUpdate
    <3> QED
      BY <3>3
  <2> QED
    BY <2>1, <2>2
<1>5. /\ tx' \in TxRecords /\ tx'.kind \in {"plan", "fence"} /\ tx'.plans = tx.plans
      /\ tx'.clients = tx.clients /\ tx'.term = tx.term /\ tx'.live = tx.live
      /\ tx'.members = tx.members /\ tx'.claim = tx.claim /\ tx'.late = tx.late
  BY <1>4 DEF Updated
<1>6. TxInv'
  BY <1>2, <1>3, <1>5, TxCarried
<1>7. RebalanceTypes' /\ PlansInv(plans)'
  BY <1>1, <1>3, <1>5 DEF RebalanceTypes
<1> QED
  BY <1>6, <1>7 DEF RebalanceInv

\* New plans take the place of rows that do not exist, under the term of the transaction.
LEMMA PlansAddedInv ==
    ASSUME RebalanceInv, tx \in TxRecords,
           NEW qs \in [PlanIds -> Plans], PlansInv(qs),
           \A p \in PlanIds : \/ qs[p] = tx.plans[p]
                              \/ /\ tx.plans[p].state = "none"
                                 /\ qs[p].state = "pending" /\ qs[p].term = tx.term,
           \E kind \in {"plan", "fence"} : Updated(tx', tx, kind, qs, tx.clients),
           UNCHANGED <<term, leader, valid, live, members, plans, clients, confirm, cadence>>
    PROVE  RebalanceInv'
<1>1. RebalanceTypes /\ PlansInv(plans) /\ tx # NoTx
  BY TxShape DEF RebalanceInv
<1>2. FinalStays /\ DecidedByTerm /\ (\A f \in Nodes : WaitKept(f)) /\ \A p \in PlanIds : ClaimedAtSource(p)
  BY <1>1 DEF RebalanceInv, TxInv
<1>3. /\ tx' \in TxRecords /\ tx'.kind # "settle" /\ tx'.plans = qs
      /\ tx'.clients = tx.clients /\ tx'.term = tx.term /\ tx'.live = tx.live
      /\ tx'.members = tx.members /\ tx'.claim = tx.claim /\ tx'.late = tx.late
  BY DEF Updated
<1>4. RebalanceTypes' /\ PlansInv(plans)' /\ PlansInv(tx.plans)'
  BY <1>1, <1>3 DEF RebalanceTypes
<1>5. FinalStays'
  BY <1>2, <1>3 DEF FinalStays, Final
<1>6. DecidedByTerm'
  BY <1>2, <1>3 DEF DecidedByTerm
<1>7. \A f \in Nodes : WaitKept(f)'
  BY <1>2, <1>3 DEF WaitKept
<1>8. ASSUME NEW p \in PlanIds PROVE ClaimedAtSource(p)'
  <2> SUFFICES ASSUME plans[p].state = "pending", qs[p].state = "executing"
               PROVE  LET f == plans[p].node
                      IN /\ p = tx.claim /\ qs[p].node = f
                         /\ plans[p].target \in tx.live /\ AtSource(tx.members, tx.live, plans[p])
                         /\ members[f].home = tx.members[f].home
                         /\ members[f].at = tx.members[f].at
                         /\ members[f].fresh \/ tx.late
    BY <1>3 DEF ClaimedAtSource
  <2>1. qs[p] = tx.plans[p]
    OBVIOUS
  <2> QED
    BY <1>2, <2>1 DEF ClaimedAtSource
<1> QED
  BY <1>3, <1>4, <1>5, <1>6, <1>7, <1>8 DEF RebalanceInv, TxInv

LEMMA NewPlanShape ==
    ASSUME RebalanceTypes, tx \in TxRecords, NEW f \in Nodes, NEW target \in Homes \cup {NoLeader},
           NEW group \in PlanIds \cup {0}
    PROVE  LET new == NewPlan(f, target, group)
           IN /\ new \in Plans /\ new.state = "pending" /\ new.group = group /\ new.node = f
              /\ new.term = tx.term
<1>1. tx.members[f] \in Members /\ tx.term \in Nat
  BY TxShape
<1>2. tx.members[f].home \in Homes \cup {NoLeader} /\ tx.members[f].at \in Nat /\ PlanTTL \in Nat
  BY <1>1, MemberShape, BoundsAssumption
<1> QED
  BY <1>1, <1>2 DEF NewPlan, Plans, States

LEMMA PlanMoveInv ==
    ASSUME RebalanceInv, NEW m \in Nodes \X Homes, PlanMove(m)
    PROVE  RebalanceInv'
<1> DEFINE new == NewPlan(m[1], m[2], 0)
           qs == [tx.plans EXCEPT ![FreshId] = new]
           home == tx.members[m[1]].home
           moves == [tx.moved EXCEPT ![home] = @ + 1]
<1>1. RebalanceTypes /\ tx.kind = "plan"
  BY DEF RebalanceInv, PlanMove
<1>2. /\ tx \in TxRecords /\ tx # NoTx /\ tx.plans \in [PlanIds -> Plans] /\ tx.moved \in [Homes -> Nat]
      /\ tx.live \subseteq Homes
  BY <1>1, TxShape
<1>3. PlansInv(tx.plans)
  BY <1>2 DEF RebalanceInv, TxInv
<1>4. /\ FreshId \in PlanIds /\ tx.plans[FreshId].state = "none"
      /\ \A p \in PlanIds : tx.plans[p].state = "none" => FreshId <= p
  BY FreshIdIsFree DEF PlanMove
<1>5. Movable(m[1])
  BY DEF PlanMove, Candidates
<1>6. new \in Plans /\ new.state = "pending" /\ new.group = 0 /\ new.node = m[1] /\ new.term = tx.term
  BY <1>1, <1>2, NewPlanShape
<1>7. tx' = [tx EXCEPT !.plans[FreshId] = new, !.moved[home] = @ + 1]
      /\ UNCHANGED <<term, leader, valid, live, members, plans, clients, confirm, cadence>>
      /\ Cardinality(Active(tx.plans)) < MaxActive
  BY DEF PlanMove
<1>8. \A p \in Active(tx.plans) : tx.plans[p].node # new.node
  BY <1>5, <1>6 DEF Movable
<1>9. home \in Homes
  BY <1>2, <1>5, CountedShape DEF Movable
<1> HIDE DEF new, home
<1>10. PlansInv(qs) /\ qs \in [PlanIds -> Plans]
  BY <1>2, <1>3, <1>4, <1>6, <1>7, <1>8, PlanAddedInv
<1>11. moves \in [Homes -> Nat]
  BY <1>2, <1>9
<1>12. tx' = [tx EXCEPT !.plans = qs, !.moved = moves]
  BY <1>7
<1>13. \A p \in PlanIds : \/ qs[p] = tx.plans[p]
                          \/ /\ tx.plans[p].state = "none"
                             /\ qs[p].state = "pending" /\ qs[p].term = tx.term
  BY <1>2, <1>4, <1>6
<1> HIDE DEF qs, moves
<1>14. Updated(tx', tx, "plan", qs, tx.clients)
  BY <1>1, <1>2, <1>10, <1>11, <1>12, MoveUpdate
<1> QED
  BY <1>2, <1>7, <1>10, <1>13, <1>14, PlansAddedInv

LEMMA ConfirmSwapInv ==
    ASSUME RebalanceInv, NEW a \in Nodes, NEW b \in Nodes, NEW samples, ConfirmSwap(a, b, samples)
    PROVE  RebalanceInv'
<1> DEFINE pair == {<<f, tx.members[f]>> : f \in {a, b}}
           count == IF tx.confirm.pair # pair \/ samples = "outlived" THEN 1
                    ELSE IF samples = "newer" THEN tx.confirm.count + 1 ELSE tx.confirm.count
           conf == [pair |-> pair, count |-> count]
           none == [pair |-> NoPair, count |-> 0]
           x == NewPlan(a, tx.members[b].home, FreshId)
           y == NewPlan(b, tx.members[a].home, FreshId)
           qs == [p \in PlanIds |-> IF p = FreshId THEN x ELSE IF p = FreshId + 1 THEN y ELSE tx.plans[p]]
<1>1. RebalanceTypes /\ tx.kind = "plan" /\ Swappable(a, b)
  BY DEF RebalanceInv, ConfirmSwap
<1>2. /\ tx \in TxRecords /\ tx # NoTx /\ tx.plans \in [PlanIds -> Plans]
      /\ tx.members \in [Nodes -> Members] /\ tx.confirm \in Confirmations
  BY <1>1, TxShape
<1>3. PlansInv(tx.plans)
  BY <1>2 DEF RebalanceInv, TxInv
<1>4. UNCHANGED <<term, leader, valid, live, members, plans, clients, confirm, cadence>>
  BY DEF ConfirmSwap
<1>5. conf \in Confirmations /\ none \in Confirmations
  <2>1. pair \in SUBSET (Nodes \X Members)
    BY <1>2
  <2>2. tx.confirm.count \in Nat
    BY <1>2 DEF Confirmations
  <2>3. count \in Nat
    BY <2>2
  <2> HIDE DEF pair, count
  <2> QED
    BY <2>1, <2>3 DEF Confirmations, NoPair
<1>6. IF count < Evidence THEN tx' = [tx EXCEPT !.kind = "fence", !.confirm = conf]
      ELSE tx' = [tx EXCEPT !.kind = "fence", !.confirm = none, !.plans = qs]
  BY DEF ConfirmSwap
<1>7. count >= Evidence => FreeIds # {}
  <2>1. count >= Evidence => Cardinality(FreeIds) >= 2
    BY DEF ConfirmSwap
  <2>2. Cardinality({}) = 0
    BY FS_EmptySet
  <2> QED
    BY <2>1, <2>2
<1>8. count < Evidence \/ count >= Evidence
  <2>1. tx.confirm.count \in Nat /\ Evidence \in Nat
    BY <1>2, BoundsAssumption DEF Confirmations
  <2> QED
    BY <2>1
<1> HIDE DEF count, conf, none
<1>9. CASE count < Evidence
  <2>1. Updated(tx', tx, "fence", tx.plans, tx.clients)
    BY <1>2, <1>5, <1>6, <1>9, ConfirmUpdate
  <2> QED
    BY <1>2, <1>3, <1>4, <2>1, PlansAddedInv
<1>10. CASE count >= Evidence /\ ~(count < Evidence)
  <2>1. /\ FreshId \in PlanIds /\ tx.plans[FreshId].state = "none"
        /\ \A p \in PlanIds : tx.plans[p].state = "none" => FreshId <= p
    BY <1>7, <1>10, FreshIdIsFree
  <2>2. tx.members[a].home \in Homes \cup {NoLeader} /\ tx.members[b].home \in Homes \cup {NoLeader}
    BY <1>2, MemberShape
  <2>3. /\ x \in Plans /\ x.state = "pending" /\ x.group = FreshId /\ x.node = a /\ x.term = tx.term
        /\ y \in Plans /\ y.state = "pending" /\ y.group = FreshId /\ y.node = b /\ y.term = tx.term
    <3>1. FreshId \in PlanIds \cup {0}
      BY <2>1
    <3>2. x \in Plans /\ x.state = "pending" /\ x.group = FreshId /\ x.node = a /\ x.term = tx.term
      <4> DEFINE home == tx.members[b].home
      <4>1. home \in Homes \cup {NoLeader} /\ x = NewPlan(a, home, FreshId)
        BY <2>2
      <4> HIDE DEF home, x, y
      <4>2. tx \in TxRecords
        BY <1>2
      <4> QED
        <5> DEFINE new == NewPlan(a, home, FreshId)
        <5>1. RebalanceTypes /\ a \in Nodes
          BY <1>1
        <5>2. /\ new \in Plans /\ new.state = "pending" /\ new.group = FreshId /\ new.node = a
              /\ new.term = tx.term
          BY <3>1, <4>1, <4>2, <5>1, NewPlanShape
        <5> HIDE DEF new
        <5> QED
          BY <4>1, <5>2 DEF new
    <3>3. y \in Plans /\ y.state = "pending" /\ y.group = FreshId /\ y.node = b /\ y.term = tx.term
      <4> DEFINE home == tx.members[a].home
      <4>1. home \in Homes \cup {NoLeader} /\ y = NewPlan(b, home, FreshId)
        BY <2>2
      <4> HIDE DEF home, x, y
      <4>2. tx \in TxRecords
        BY <1>2
      <4> QED
        <5> DEFINE new == NewPlan(b, home, FreshId)
        <5>1. RebalanceTypes /\ b \in Nodes
          BY <1>1
        <5>2. /\ new \in Plans /\ new.state = "pending" /\ new.group = FreshId /\ new.node = b
              /\ new.term = tx.term
          BY <3>1, <4>1, <4>2, <5>1, NewPlanShape
        <5> HIDE DEF new
        <5> QED
          BY <4>1, <5>2 DEF new
    <3> QED
      BY <3>2, <3>3
  <2>4. a # b /\ Active(tx.plans) = {}
    BY <1>1 DEF Swappable
  <2> HIDE DEF x, y
  <2>5. /\ PlansInv(qs) /\ qs \in [PlanIds -> Plans]
        /\ \A p \in PlanIds : qs[p] = tx.plans[p] \/ (tx.plans[p].state = "none" /\ qs[p] \in {x, y})
    <3>1. qs = [p \in PlanIds |-> IF p = FreshId THEN x ELSE IF p = FreshId + 1 THEN y ELSE tx.plans[p]]
      OBVIOUS
    <3> HIDE DEF qs
    <3>2. x.node # y.node
      BY <2>3, <2>4
    <3> QED
      BY <1>2, <1>3, <2>1, <2>3, <2>4, <3>1, <3>2, SwapAddedInv
  <2>6. tx' = [tx EXCEPT !.kind = "fence", !.confirm = none, !.plans = qs]
    BY <1>6, <1>10
  <2> HIDE DEF qs
  <2>7. Updated(tx', tx, "fence", qs, tx.clients)
    BY <1>2, <1>5, <2>5, <2>6, SwapUpdate
  <2>8. \A p \in PlanIds : \/ qs[p] = tx.plans[p]
                           \/ /\ tx.plans[p].state = "none"
                              /\ qs[p].state = "pending" /\ qs[p].term = tx.term
    BY <2>3, <2>5
  <2> QED
    BY <1>2, <1>4, <2>5, <2>7, <2>8, PlansAddedInv
<1> QED
  BY <1>8, <1>9, <1>10

LEMMA EndTransactionInv ==
    ASSUME RebalanceInv, EndTransaction
    PROVE  RebalanceInv'
<1>1. RebalanceTypes /\ PlansInv(plans) /\ tx.kind = "fence"
  BY DEF RebalanceInv, EndTransaction
<1>2. /\ tx \in TxRecords /\ tx # NoTx /\ tx.plans \in [PlanIds -> Plans]
      /\ tx.clients \in [Nodes -> Clients] /\ tx.confirm \in Confirmations
  BY <1>1, TxShape
<1>3. PlansInv(tx.plans)
  BY <1>2 DEF RebalanceInv, TxInv
<1>4. /\ \/ plans' = tx.plans /\ clients' = tx.clients
         \/ UNCHANGED <<plans, clients>>
      /\ confirm' \in Confirmations /\ cadence' \in Nat
      /\ tx' = NoTx /\ UNCHANGED <<term, live, members>>
  BY <1>1, <1>2, BoundsAssumption DEF EndTransaction, RebalanceTypes
<1>5. PlansInv(plans)'
  <2>1. CASE plans' = tx.plans
    BY <1>3, <2>1
  <2>2. CASE plans' = plans
    BY <1>1, <2>2
  <2> QED
    BY <1>4, <2>1, <2>2
<1>6. RebalanceTypes'
  BY <1>1, <1>2, <1>4 DEF RebalanceTypes
<1> QED
  BY <1>4, <1>5, <1>6 DEF RebalanceInv, TxInv

(***************************************************************************)
(* The nodes' messages.                                                    *)
(***************************************************************************)
LEMMA EnableInv ==
    ASSUME RebalanceInv, NEW f \in Nodes, Enable(f)
    PROVE  RebalanceInv'
<1> DEFINE new == [clients[f] EXCEPT !.at = members[f].at]
<1>1. RebalanceTypes /\ PlansInv(plans)
  BY DEF RebalanceInv
<1>2. clients[f] \in Clients /\ members[f].at \in Nat
  BY <1>1, MemberShape DEF RebalanceTypes
<1>3. new \in Clients
  BY <1>2 DEF Clients
<1>4. clients' = [clients EXCEPT ![f] = new] /\ tx = NoTx
      /\ UNCHANGED <<term, live, members, plans, confirm, cadence, tx>>
  BY DEF Enable
<1> HIDE DEF new
<1>5. RebalanceTypes'
  BY <1>1, <1>3, <1>4 DEF RebalanceTypes
<1>6. PlansInv(plans)'
  BY <1>1, <1>4
<1> QED
  BY <1>4, <1>5, <1>6 DEF RebalanceInv, TxInv

LEMMA ResultInv ==
    ASSUME RebalanceInv, NEW f \in Nodes, NEW p \in PlanIds, ResultSuccess(f, p) \/ ResultFailed(f, p)
    PROVE  RebalanceInv'
<1>1. RebalanceTypes /\ PlansInv(plans)
  BY DEF RebalanceInv
<1>2. PICK state \in Final : /\ plans' = FinishedPlans(plans, p, state)
                             /\ clients' = FinishedClients(plans, clients, p, state)
  BY DEF ResultSuccess, ResultFailed, Final
<1>3. plans[p].state \in ActiveStates /\ tx = NoTx /\ UNCHANGED <<term, live, members, confirm, cadence, tx>>
  BY DEF ResultSuccess, ResultFailed, ActiveStates
<1>4. plans \in [PlanIds -> Plans] /\ clients \in [Nodes -> Clients]
  BY <1>1 DEF RebalanceTypes
<1>5. plans' \in [PlanIds -> Plans]
  BY <1>2, <1>3, <1>4, FinishedShape
<1>6. clients' \in [Nodes -> Clients]
  BY <1>2, <1>4, FinishedClientsShape
<1>7. PlansInv(FinishedPlans(plans, p, state))
  BY <1>1, <1>3, <1>4, FinishedInv
<1>8. PlansInv(plans)'
  BY <1>2, <1>7
<1>9. RebalanceTypes'
  BY <1>1, <1>3, <1>5, <1>6 DEF RebalanceTypes
<1> QED
  BY <1>3, <1>8, <1>9 DEF RebalanceInv, TxInv

LEMMA ClaimInv ==
    ASSUME RebalanceInv, NEW f \in Nodes, NEW p \in PlanIds, Claim(f, p)
    PROVE  RebalanceInv'
<1> DEFINE justified == f \in Counted(members, live) /\ ClaimJustified(p)
           qs == IF justified THEN [plans EXCEPT ![p].state = "executing", ![p].ttl = PlanTTL]
                 ELSE FinishedPlans(plans, p, "canceled")
           ds == IF justified THEN clients ELSE FinishedClients(plans, clients, p, "canceled")
           new == [kind |-> "fence", term |-> term, live |-> live, members |-> members,
                   plans |-> qs, clients |-> ds,
                   confirm |-> confirm, todo |-> {}, changed |-> TRUE, balance |-> FALSE,
                   moved |-> [h \in Homes |-> 0], claim |-> p, late |-> FALSE]
<1>1. RebalanceTypes /\ PlansInv(plans) /\ plans \in [PlanIds -> Plans] /\ clients \in [Nodes -> Clients]
  BY DEF RebalanceInv, RebalanceTypes
<1>2. /\ plans[p].node = f /\ plans[p].state = "pending" /\ plans[p].term = term
      /\ plans[p].at = members[f].at /\ plans[p].source = members[f].home /\ plans[p].target \in live
      /\ UNCHANGED <<term, leader, valid, live, members, plans, clients, confirm, cadence>>
  BY DEF Claim
<1>3. tx' = new
  BY DEF Claim
<1>4. "canceled" \in Final /\ "pending" \in ActiveStates
  BY DEF Final, ActiveStates
<1>5. justified => /\ qs \in [PlanIds -> Plans] /\ PlansInv(qs) /\ ds = clients
                   /\ qs[p].state = "executing" /\ qs[p].node = f /\ qs[p].term = term
                   /\ \A q \in PlanIds : q # p => qs[q] = plans[q]
  <2> DEFINE ps == [plans EXCEPT ![p].state = "executing", ![p].ttl = PlanTTL]
  <2>1. /\ ps \in [PlanIds -> Plans] /\ PlansInv(ps)
        /\ ps[p].state = "executing" /\ ps[p].node = f /\ ps[p].term = term
        /\ \A q \in PlanIds : q # p => ps[q] = plans[q]
    BY <1>1, <1>2, ClaimedPlanInv
  <2>2. justified => qs = ps /\ ds = clients
    OBVIOUS
  <2> HIDE DEF ps, qs, ds, justified
  <2> QED
    BY <2>1, <2>2
<1>6. ~justified => /\ qs \in [PlanIds -> Plans] /\ PlansInv(qs)
                    /\ \A q \in PlanIds :
                          qs[q] = plans[q] \/ (plans[q].state \in ActiveStates /\ qs[q].state \in Final)
  BY <1>1, <1>2, <1>4, FinishedShape, FinishedInv
<1>7. ds \in [Nodes -> Clients] /\ \A g \in Nodes : ds[g].wait >= clients[g].wait \/ ds[g].backoff = 0
  <2>1. CASE justified
    <3>1. \A g \in Nodes : clients[g].wait \in Nat
      BY <1>1, ClientShape
    <3> QED
      BY <1>1, <2>1, <3>1
  <2>2. CASE ~justified
    BY <1>1, <1>4, <2>2, FinishedClientsShape
  <2> QED
    BY <2>1, <2>2
<1> HIDE DEF qs, ds
<1>8. /\ new \in TxRecords /\ new.kind = "fence" /\ new.plans = qs /\ new.clients = ds
      /\ new.term = term /\ new.live = live /\ new.members = members /\ new.claim = p
  <2>1. {} \in SUBSET PlanIds /\ [h \in Homes |-> 0] \in [Homes -> Nat] /\ p \in PlanIds \cup {0}
    OBVIOUS
  <2>2. term \in Nat /\ live \in SUBSET Homes /\ members \in [Nodes -> Members] /\ confirm \in Confirmations
    BY <1>1 DEF RebalanceTypes
  <2>3. qs \in [PlanIds -> Plans]
    BY <1>5, <1>6
  <2> QED
    BY <1>7, <2>1, <2>2, <2>3 DEF TxRecords
<1> HIDE DEF new
<1>9. RebalanceTypes' /\ PlansInv(plans)' /\ PlansInv(tx.plans)'
  BY <1>1, <1>2, <1>3, <1>5, <1>6, <1>8 DEF RebalanceTypes
<1>10. FinalStays'
  <2> SUFFICES ASSUME NEW q \in PlanIds, plans[q].state \in Final PROVE qs[q].state = plans[q].state
    BY <1>2, <1>3, <1>8 DEF FinalStays
  <2>1. plans[q].state \notin ActiveStates /\ q # p
    BY <1>2 DEF Final, ActiveStates
  <2> QED
    BY <1>5, <1>6, <2>1
<1>11. DecidedByTerm'
  <2> SUFFICES ASSUME NEW q \in PlanIds, qs[q].state \in ActiveStates, qs[q].state # plans[q].state
               PROVE  qs[q].term = term
    BY <1>2, <1>3, <1>8 DEF DecidedByTerm
  <2>1. qs[q].state \notin Final
    BY DEF Final, ActiveStates
  <2> QED
    BY <1>5, <1>6, <2>1
<1>12. \A g \in Nodes : WaitKept(g)'
  BY <1>2, <1>3, <1>7, <1>8 DEF WaitKept
<1>13. ASSUME NEW q \in PlanIds PROVE ClaimedAtSource(q)'
  <2> SUFFICES ASSUME plans[q].state = "pending", qs[q].state = "executing"
               PROVE  LET g == plans[q].node
                      IN /\ q = p /\ qs[q].node = g
                         /\ plans[q].target \in live /\ AtSource(members, live, plans[q])
                         /\ members'[g].home = members[g].home /\ members'[g].at = members[g].at
                         /\ members'[g].fresh \/ tx'.late
    BY <1>2, <1>3, <1>8 DEF ClaimedAtSource
  <2>1. justified /\ q = p
    BY <1>5, <1>6 DEF Final
  <2>2. members[f].fresh
    BY <2>1, CountedShape
  <2>3. AtSource(members, live, plans[p])
    BY <1>2, <2>1 DEF AtSource
  <2> QED
    BY <1>2, <1>5, <2>1, <2>2, <2>3
<1> QED
  BY <1>3, <1>8, <1>9, <1>10, <1>11, <1>12, <1>13 DEF RebalanceInv, TxInv

LEMMA TickInv ==
    ASSUME RebalanceInv, Tick
    PROVE  /\ RebalanceInv'
           /\ \A p \in PlanIds : plans'[p].state = plans[p].state
           /\ \A f \in Nodes : clients'[f].wait < clients[f].wait => clients'[f].wait = clients[f].wait - 1
<1>1. RebalanceTypes /\ PlansInv(plans)
  BY DEF RebalanceInv
<1>2. /\ tx = NoTx /\ UNCHANGED <<term, live, members, confirm, tx>>
      /\ plans' = [p \in PlanIds |-> [plans[p] EXCEPT !.ttl = Max({@ - 1, 0})]]
      /\ clients' = [f \in Nodes |-> [clients[f] EXCEPT !.wait = Max({@ - 1, 0}), !.opt = Max({@ - 1, 0})]]
      /\ cadence' = Max({cadence - 1, 0})
  BY DEF Tick
<1>3. ASSUME NEW n, n \in Nat
      PROVE  Max({n - 1, 0}) \in Nat /\ Max({n - 1, 0}) >= n - 1
  <2> DEFINE m == n - 1
  <2>1. m \in Int /\ 0 \in Int
    BY <1>3
  <2> HIDE DEF m
  <2>2. Max({m, 0}) \in {m, 0} /\ Max({m, 0}) >= 0 /\ Max({m, 0}) >= m
    BY <2>1, MaxOfTwo
  <2>3. Max({m, 0}) \in Nat
    BY <2>1, <2>2
  <2> QED
    BY <2>2, <2>3 DEF m
<1>4. ASSUME NEW p \in PlanIds
      PROVE  /\ plans'[p] \in Plans /\ plans'[p].state = plans[p].state
             /\ plans'[p].node = plans[p].node /\ plans'[p].group = plans[p].group
  <2> DEFINE left == Max({plans[p].ttl - 1, 0})
  <2>1. plans[p] \in Plans
    BY <1>1 DEF RebalanceTypes
  <2>2. plans[p].ttl \in Nat
    BY <2>1 DEF Plans
  <2>3. left \in Nat
    BY <1>3, <2>2
  <2>4. plans'[p] = [plans[p] EXCEPT !.ttl = left]
    BY <1>2
  <2> HIDE DEF left
  <2> QED
    BY <2>1, <2>3, <2>4 DEF Plans
<1>5. ASSUME NEW f \in Nodes
      PROVE  /\ clients'[f] \in Clients
             /\ clients'[f].wait < clients[f].wait => clients'[f].wait = clients[f].wait - 1
  <2> DEFINE wait == Max({clients[f].wait - 1, 0})
             opt == Max({clients[f].opt - 1, 0})
  <2>1. clients[f] \in Clients
    BY <1>1 DEF RebalanceTypes
  <2>2. clients[f].wait \in Nat /\ clients[f].opt \in Nat
    BY <2>1, ClientShape
  <2>3. wait \in Nat /\ opt \in Nat /\ wait >= clients[f].wait - 1
    BY <1>3, <2>2
  <2>4. clients'[f] = [clients[f] EXCEPT !.wait = wait, !.opt = opt]
    BY <1>2
  <2> HIDE DEF wait, opt
  <2>5. clients'[f] \in Clients /\ clients'[f].wait = wait
    BY <2>1, <2>3, <2>4 DEF Clients
  <2>6. wait < clients[f].wait => wait = clients[f].wait - 1
    <3>1. PICK n \in Nat : n = clients[f].wait
      BY <2>2
    <3>2. wait \in Nat /\ wait >= n - 1
      BY <2>3, <3>1
    <3>3. wait < n => wait = n - 1
      BY <3>2
    <3> QED
      BY <3>1, <3>3
  <2> QED
    BY <2>5, <2>6
<1>6. plans' \in [PlanIds -> Plans] /\ clients' \in [Nodes -> Clients]
  BY <1>2, <1>4, <1>5
<1>7. cadence' \in Nat
  BY <1>1, <1>2, <1>3 DEF RebalanceTypes
<1>8. RebalanceTypes'
  BY <1>1, <1>2, <1>6, <1>7 DEF RebalanceTypes
<1>9. PlansInv(plans)'
  <2>1. PICK qs : qs = plans'
    OBVIOUS
  <2>2. PlansInv(qs)
    BY <1>1, <1>4, <2>1, PlansSame
  <2> QED
    BY <2>1, <2>2
<1> QED
  BY <1>2, <1>4, <1>5, <1>8, <1>9 DEF RebalanceInv, TxInv

(***************************************************************************)
(* The invariant.                                                          *)
(***************************************************************************)
LEMMA RebalanceInitInv == Init => RebalanceInv
<1> SUFFICES ASSUME Init PROVE RebalanceInv
  OBVIOUS
<1>1. PICK placed \in Placements : members = [f \in Nodes |-> [home |-> placed[f], at |-> 1, fresh |-> TRUE]]
  BY DEF Init
<1>2. members \in [Nodes -> Members]
  <2>1. ASSUME NEW f \in Nodes PROVE [home |-> placed[f], at |-> 1, fresh |-> TRUE] \in Members
    <3>1. placed[f] \in Homes
      BY PlacementsAssumption
    <3> QED
      BY <3>1 DEF Members
  <2> QED
    BY <1>1, <2>1
<1>3. NoPlan \in Plans /\ NoPlan.state = "none" /\ NoPlan.group = 0
  BY DEF NoPlan, Plans, States
<1>4. \A p \in PlanIds : plans[p] = NoPlan
  BY DEF Init
<1>5. plans \in [PlanIds -> Plans]
  BY <1>3 DEF Init
<1>6. clients \in [Nodes -> Clients] /\ confirm \in Confirmations
  BY DEF Init, Clients, Confirmations, NoPair
<1>7. RebalanceTypes
  BY <1>2, <1>5, <1>6 DEF Init, RebalanceTypes, LeadershipInit
<1>8. Active(plans) = {}
  BY <1>3, <1>4 DEF Active, ActiveStates
<1>9. OneEach(plans) /\ Few(plans)
  BY <1>8, FS_EmptySet, BoundsAssumption DEF OneEach, Few
<1>10. WholeSwaps(plans) /\ IdsAscend(plans) /\ GroupsExist(plans)
  BY <1>3, <1>4 DEF WholeSwaps, IdsAscend, GroupsExist
<1>11. TxInv
  BY DEF Init, TxInv
<1> QED
  BY <1>7, <1>9, <1>10, <1>11 DEF RebalanceInv, PlansInv

LEMMA RebalanceStepInv == RebalanceInv /\ [Next]_vars => RebalanceInv'
<1> SUFFICES ASSUME RebalanceInv, [Next]_vars PROVE RebalanceInv'
  OBVIOUS
<1>1. ASSUME PlannerStep PROVE RebalanceInv'
  BY <1>1, BeginReconcileInv, SettlePlanInv, PlanningInv, PlanMoveInv, ConfirmSwapInv, EndTransactionInv
  DEF PlannerStep
<1>2. ASSUME NEW f \in Nodes, NodeStep(f) PROVE RebalanceInv'
  <2>1. ASSUME NEW p \in PlanIds, Instruct(f, p) PROVE RebalanceInv'
    BY <2>1, HomesInv
  <2>2. ASSUME (\E h \in Homes : Connect(f, h)) \/ FallSilent(f) \/ CloseMembership(f)
        PROVE  RebalanceInv'
    BY <2>2, MembersInv
  <2>3. ASSUME NEW p \in PlanIds, Claim(f, p) \/ ResultSuccess(f, p) \/ ResultFailed(f, p)
        PROVE  RebalanceInv'
    BY <2>3, ClaimInv, ResultInv
  <2> QED
    BY <1>2, <2>1, <2>2, <2>3, EnableInv DEF NodeStep
<1>3. ASSUME (\E h \in Homes : ElectLeader(h) \/ LoseHome(h) \/ RecoverHome(h)) \/ LoseLease
      PROVE  RebalanceInv'
  BY <1>3, HomesInv
<1>4. ASSUME UNCHANGED vars PROVE RebalanceInv'
  <2>1. UNCHANGED <<plans, clients, members, tx>>
    BY <1>4 DEF vars
  <2>2. TxInv'
    BY <2>1, TxCarried
  <2>3. RebalanceTypes' /\ PlansInv(plans)'
    BY <1>4, <2>1 DEF vars, RebalanceInv, RebalanceTypes
  <2> QED
    BY <2>2, <2>3 DEF RebalanceInv
<1> QED
  BY <1>1, <1>2, <1>3, <1>4, TickInv DEF Next

LEMMA InvariantHolds == Spec => []RebalanceInv
  BY RebalanceInitInv, RebalanceStepInv, PTL DEF Spec

(***************************************************************************)
(* A CPA node has one plan at most, and no more than rebalanceMaxActive    *)
(* moves are under way, over any number of rounds, leaders and retries.    *)
(***************************************************************************)
THEOREM PlansStayBounded == Spec => []PlansAreBounded
<1>1. RebalanceInv => PlansAreBounded
  BY DEF RebalanceInv, PlansInv, OneEach, Few, PlansAreBounded, OnePlanPerNode, ActivePlansBounded
<1> QED
  BY <1>1, InvariantHolds, PTL

(***************************************************************************)
(* finishRebalancePlan leaves no leg of a swap on offer whose other leg    *)
(* failed or was canceled.                                                 *)
(***************************************************************************)
THEOREM SwapsStayWhole == Spec => []NoHalfSwapOffered
<1>1. RebalanceInv => NoHalfSwapOffered
  BY DEF RebalanceInv, PlansInv, WholeSwaps, NoHalfSwapOffered
<1> QED
  BY <1>1, InvariantHolds, PTL

(***************************************************************************)
(* Decisions: only the end of a transaction, a result and time write plans *)
(* and waits.                                                              *)
(***************************************************************************)
LEMMA WritersOfPlans ==
    ASSUME RebalanceInv, [Next]_vars
    PROVE  \/ UNCHANGED <<plans, clients>>
           \/ EndTransaction /\ FenceHolds /\ plans' = tx.plans /\ clients' = tx.clients
           \/ \E f \in Nodes : Enable(f)
           \/ \E f \in Nodes, p \in PlanIds : ResultSuccess(f, p) \/ ResultFailed(f, p)
           \/ Tick
<1>1. ASSUME PlannerStep
      PROVE  \/ UNCHANGED <<plans, clients>>
             \/ EndTransaction /\ FenceHolds /\ plans' = tx.plans /\ clients' = tx.clients
  BY <1>1 DEF PlannerStep, BeginReconcile, SettlePlan, BeginPlanning, PlanMove, NoSwap, ConfirmSwap,
              EndTransaction
<1>2. ASSUME NEW f \in Nodes, NodeStep(f)
      PROVE  \/ UNCHANGED <<plans, clients>>
             \/ Enable(f) \/ \E p \in PlanIds : ResultSuccess(f, p) \/ ResultFailed(f, p)
  BY <1>2 DEF NodeStep, Instruct, Claim, Connect, FallSilent, CloseMembership
<1>3. ASSUME (\E h \in Homes : ElectLeader(h) \/ LoseHome(h) \/ RecoverHome(h)) \/ LoseLease
      PROVE  UNCHANGED <<plans, clients>>
  BY <1>3 DEF ElectLeader, LoseHome, RecoverHome, LoseLease
<1> QED
  BY <1>1, <1>2, <1>3 DEF Next, vars

\* What a committing transaction holds.
LEMMA CommittedTx ==
    ASSUME RebalanceInv, EndTransaction
    PROVE  /\ tx \in TxRecords /\ FinalStays /\ DecidedByTerm
           /\ \A f \in Nodes : WaitKept(f)
           /\ \A p \in PlanIds : ClaimedAtSource(p)
<1>1. tx \in TxRecords /\ tx # NoTx
  BY TxShape DEF RebalanceInv, EndTransaction
<1> QED
  BY <1>1 DEF RebalanceInv, TxInv

\* A result ends plans and starts none.
LEMMA ResultsOnlyEnd ==
    ASSUME RebalanceInv, NEW f \in Nodes, NEW p \in PlanIds, ResultSuccess(f, p) \/ ResultFailed(f, p)
    PROVE  /\ \A q \in PlanIds : \/ plans'[q] = plans[q]
                                 \/ plans[q].state \in ActiveStates /\ plans'[q].state \in Final
           /\ \A g \in Nodes : clients'[g].wait >= clients[g].wait \/ clients'[g].backoff = 0
<1>1. plans \in [PlanIds -> Plans] /\ clients \in [Nodes -> Clients]
  BY DEF RebalanceInv, RebalanceTypes
<1>2. PICK state \in Final : /\ plans' = FinishedPlans(plans, p, state)
                             /\ clients' = FinishedClients(plans, clients, p, state)
  BY DEF ResultSuccess, ResultFailed, Final
<1>3. plans[p].state \in ActiveStates
  BY DEF ResultSuccess, ResultFailed, ActiveStates
<1>4. \A q \in PlanIds : \/ plans'[q] = plans[q]
                         \/ plans[q].state \in ActiveStates /\ plans'[q].state \in Final
  BY <1>1, <1>2, <1>3, FinishedShape
<1>5. \A g \in Nodes : clients'[g].wait >= clients[g].wait \/ clients'[g].backoff = 0
  BY <1>1, <1>2, FinishedClientsShape
<1> QED
  BY <1>4, <1>5

\* What a step does to one plan and to one node's wait.
LEMMA PlanSteps ==
    ASSUME RebalanceInv, [Next]_vars, NEW p \in PlanIds
    PROVE  /\ plans'[p].state \in ActiveStates /\ plans'[p].state # plans[p].state =>
                  valid /\ plans'[p].term = term
           /\ plans[p].state = "pending" /\ plans'[p].state = "executing" =>
                  plans[p].target \in live /\ AtSource(members, live, plans[p])
           /\ plans[p].state \in Final => plans'[p].state = plans[p].state
<1> DEFINE Goal ==
           /\ plans'[p].state \in ActiveStates /\ plans'[p].state # plans[p].state =>
                  valid /\ plans'[p].term = term
           /\ plans[p].state = "pending" /\ plans'[p].state = "executing" =>
                  plans[p].target \in live /\ AtSource(members, live, plans[p])
           /\ plans[p].state \in Final => plans'[p].state = plans[p].state
<1>1. ASSUME plans'[p].state = plans[p].state PROVE Goal
  BY <1>1
<1>2. ASSUME EndTransaction, FenceHolds, plans' = tx.plans PROVE Goal
  <2>1. FinalStays /\ DecidedByTerm /\ ClaimedAtSource(p)
    BY <1>2, CommittedTx
  <2>2. term = tx.term /\ valid /\ ~tx.late /\ tx.live = live
    BY <1>2 DEF FenceHolds
  <2>3. ASSUME plans[p].state = "pending", plans'[p].state = "executing"
        PROVE  plans[p].target \in live /\ AtSource(members, live, plans[p])
    <3> DEFINE f == plans[p].node
    <3>1. /\ plans[p].target \in tx.live /\ AtSource(tx.members, tx.live, plans[p])
          /\ members[f].home = tx.members[f].home /\ members[f].at = tx.members[f].at
          /\ members[f].fresh
      BY <1>2, <2>1, <2>2, <2>3 DEF ClaimedAtSource
    <3> QED
      BY <2>2, <3>1 DEF AtSource, Counted
  <2>4. plans'[p].state \in ActiveStates /\ plans'[p].state # plans[p].state =>
            valid /\ plans'[p].term = term
    BY <1>2, <2>1, <2>2 DEF DecidedByTerm
  <2>5. plans[p].state \in Final => plans'[p].state = plans[p].state
    BY <1>2, <2>1 DEF FinalStays
  <2> QED
    BY <2>3, <2>4, <2>5
<1>3. ASSUME NEW f \in Nodes, Enable(f) PROVE Goal
  BY <1>1, <1>3 DEF Enable
<1>4. ASSUME NEW f \in Nodes, NEW q \in PlanIds, ResultSuccess(f, q) \/ ResultFailed(f, q) PROVE Goal
  <2>1. \/ plans'[p] = plans[p]
        \/ plans[p].state \in ActiveStates /\ plans'[p].state \in Final
    BY <1>4, ResultsOnlyEnd
  <2> QED
    BY <1>1, <2>1 DEF Final, ActiveStates
<1>5. ASSUME Tick PROVE Goal
  BY <1>1, <1>5, TickInv
<1>6. ASSUME UNCHANGED plans PROVE Goal
  BY <1>1, <1>6
<1>7. Goal
  <2> HIDE DEF Goal
  <2> QED
    BY <1>2, <1>3, <1>4, <1>5, <1>6, WritersOfPlans
<1> QED
  BY <1>7

LEMMA WaitSteps ==
    ASSUME RebalanceInv, [Next]_vars, NEW f \in Nodes, clients'[f].wait < clients[f].wait
    PROVE  clients'[f].wait = clients[f].wait - 1 \/ clients'[f].backoff = 0
<1>1. clients \in [Nodes -> Clients]
  BY DEF RebalanceInv, RebalanceTypes
<1>2. clients[f] \in Clients /\ clients[f].wait \in Nat
  BY <1>1, ClientShape
<1>3. clients' \in [Nodes -> Clients]
  BY RebalanceStepInv DEF RebalanceInv, RebalanceTypes
<1>4. clients'[f].wait \in Nat
  BY <1>3, ClientShape
<1>5. ASSUME clients'[f].wait >= clients[f].wait \/ clients'[f].backoff = 0
      PROVE  clients'[f].backoff = 0
  BY <1>2, <1>4, <1>5
<1>6. ASSUME EndTransaction, clients' = tx.clients PROVE clients'[f].backoff = 0
  BY <1>5, <1>6, CommittedTx DEF WaitKept
<1>7. ASSUME NEW g \in Nodes, Enable(g) PROVE FALSE
  <2>1. clients' = [clients EXCEPT ![g].at = members[g].at]
    BY <1>7 DEF Enable
  <2>2. clients'[f].wait = clients[f].wait
    BY <1>1, <1>2, <2>1 DEF Clients
  <2> QED
    BY <1>2, <2>2
<1>8. ASSUME NEW g \in Nodes, NEW p \in PlanIds, ResultSuccess(g, p) \/ ResultFailed(g, p)
      PROVE  clients'[f].backoff = 0
  BY <1>5, <1>8, ResultsOnlyEnd
<1>9. ASSUME Tick PROVE clients'[f].wait = clients[f].wait - 1
  BY <1>9, TickInv
<1>10. ASSUME UNCHANGED clients PROVE FALSE
  BY <1>2, <1>10
<1> QED
  BY <1>6, <1>7, <1>8, <1>9, <1>10, WritersOfPlans

(***************************************************************************)
(* Plans are created and moves authorised only under the leadership that   *)
(* read the loads, on members that still are at the source; results stand, *)
(* and a wait ends only by time or a completed move                        *)
(* (fenceRebalanceLeadership, finishRebalancePlan).                        *)
(***************************************************************************)
THEOREM DecisionsAreKept == Spec => DecisionsStand
<1> DEFINE Decided == \A p \in PlanIds :
               plans'[p].state \in ActiveStates /\ plans'[p].state # plans[p].state =>
                   valid /\ plans'[p].term = term
           Current == \A p \in PlanIds :
               plans[p].state = "pending" /\ plans'[p].state = "executing" =>
                   plans[p].target \in live /\ AtSource(members, live, plans[p])
           Stays == \A p \in PlanIds :
               plans[p].state \in {"completed", "failed", "canceled"} => plans'[p].state = plans[p].state
           Waits == \A f \in Nodes :
               clients'[f].wait < clients[f].wait =>
                   clients'[f].wait = clients[f].wait - 1 \/ clients'[f].backoff = 0
<1>1. RebalanceInv /\ [Next]_vars => [Decided]_vars
  BY PlanSteps
<1>2. RebalanceInv /\ [Next]_vars => [Current]_vars
  BY PlanSteps
<1>3. RebalanceInv /\ [Next]_vars => [Stays]_vars
  BY PlanSteps DEF Final
<1>4. RebalanceInv /\ [Next]_vars => [Waits]_vars
  BY WaitSteps
<1> QED
  BY <1>1, <1>2, <1>3, <1>4, InvariantHolds, PTL
  DEF Spec, DecisionsStand, OnlyCurrentLeaderDecides, ClaimsAreCurrent, ResultsAreFinal, BackoffNotShortened
===============================================================================
