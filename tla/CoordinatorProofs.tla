--------------------------- MODULE CoordinatorProofs ---------------------------
(***************************************************************************)
(* Machine-checked proofs about the master election, for any number of     *)
(* Homes, any heartbeat timeout and any number of restarts:                *)
(*                                                                         *)
(*   - the gate row implements the abstract leadership the rebalancer      *)
(*     relies on;                                                          *)
(*   - the gate, the flagged row, the belief of each process and its auto  *)
(*     refresh agree, up to the callbacks under way.                       *)
(*                                                                         *)
(* The inductive invariant has three independent parts: what the gate row  *)
(* knows of the elected row (GateInv), the timer of a belief               *)
(* (BeliefExpires), and the callbacks of each process (NoticeInv).         *)
(***************************************************************************)
EXTENDS Coordinator, FiniteSetTheorems, WellFoundedInduction, TLAPS

-------------------------------------------------------------------------------
(* The election: the oldest live row exists. *)

LEMMA SmallestElement ==
    ASSUME NEW S \in SUBSET Nat, S # {}
    PROVE  \E x \in S : \A y \in S : x <= y
<1> DEFINE R == OpToRel(<, Nat)
<1>1. PICK x \in S : \A y \in S : ~ (<<y, x>> \in R)
  BY NatLessThanWellFounded, WFMin, Zenon
<1>2. \A y \in S : ~ (y < x)
  BY <1>1 DEF OpToRel
<1> QED
  BY <1>2

LEMMA OldestLives ==
    ASSUME NEW rs \in [Homes -> Rows], Live(rs) # {}
    PROVE  /\ Elected(rs) \in Live(rs)
           /\ \A b \in Live(rs) : Before(rs, Elected(rs), b)
<1>1. Live(rs) \subseteq Homes /\ Homes \subseteq Nat
  BY HomesAssumption DEF Live
<1>2. \A a \in Live(rs) : rs[a].started \in Nat
  BY <1>1 DEF Rows
<1> DEFINE Starts == {rs[a].started : a \in Live(rs)}
<1>3. PICK s \in Starts : \A t \in Starts : s <= t
  <2>1. Starts \in SUBSET Nat /\ Starts # {}
    BY <1>2
  <2> HIDE DEF Starts
  <2> QED
    BY <2>1, SmallestElement
<1> DEFINE Eldest == {a \in Live(rs) : rs[a].started = s}
<1>4. PICK a \in Eldest : \A b \in Eldest : a <= b
  <2>1. Eldest \in SUBSET Nat /\ Eldest # {}
    BY <1>1, <1>3
  <2> HIDE DEF Eldest
  <2> QED
    BY <2>1, SmallestElement
<1>5. a \in Live(rs) /\ \A b \in Live(rs) : Before(rs, a, b)
  <2> SUFFICES ASSUME NEW b \in Live(rs) PROVE Before(rs, a, b)
    BY <1>4
  <2>1. rs[a].started = s /\ s <= rs[b].started /\ rs[b].started \in Nat /\ s \in Nat
    BY <1>2, <1>3, <1>4
  <2>2. CASE rs[b].started = s
    BY <1>4, <2>1, <2>2 DEF Before
  <2>3. CASE rs[b].started # s
    BY <2>1, <2>3 DEF Before
  <2> QED
    BY <2>2, <2>3
<1> QED
  BY <1>5 DEF Elected

-------------------------------------------------------------------------------
(* Types. *)

\* The ranks of the processes and of their rows stay within the bound.
RanksBounded ==
    /\ starts \in 1 .. MaxStarts
    /\ \A a \in Homes : rows[a].started <= MaxStarts /\ main[a].started <= MaxStarts
    /\ \A a \in Homes : main[a].pc # "down" => main[a].started # 0

ElectionTypeInv == TypeOK /\ RanksBounded

LEMMA InitElectionType == Init => ElectionTypeInv
<1> SUFFICES ASSUME Init PROVE ElectionTypeInv
  OBVIOUS
<1> USE TimeoutAssumption, MaxStartsAssumption DEF Init
<1>1. Down \in Mains /\ Down.started = 0 /\ Down.pc = "down"
  BY DEF Down, Mains
<1>2. NoBelief \in Beliefs
  BY DEF NoBelief, Beliefs, NoTimer
<1>3. rows \in [Homes -> Rows] /\ \A a \in Homes : rows[a].started = 0
  <2> DEFINE old == Timeout + 1
  <2>1. old \in 0 .. Timeout + 1
    OBVIOUS
  <2>2. rows = [a \in Homes |-> [started |-> 0, age |-> old, master |-> FALSE]]
    OBVIOUS
  <2> HIDE DEF old, Init
  <2>3. [started |-> 0, age |-> old, master |-> FALSE] \in Rows
    BY <2>1 DEF Rows
  <2> QED
    BY <2>2, <2>3
<1>4. gate \in Gates
  <2> DEFINE z == 0
  <2>1. z \in Nat /\ z \in Homes \union {0} /\ z \in 0 .. Timeout
    OBVIOUS
  <2>2. gate = [term |-> z, home |-> z, started |-> z, lease |-> z]
    OBVIOUS
  <2> HIDE DEF z, Init
  <2> QED
    BY <2>1, <2>2 DEF Gates
<1>5. main \in [Homes -> Mains] /\ belief \in [Homes -> Beliefs]
  BY <1>1, <1>2
<1>6. /\ expiring \in [Homes -> SUBSET {"current", "older"}]
      /\ notices \in [Homes -> SUBSET Notices]
      /\ refreshing \in [Homes -> BOOLEAN]
      /\ starts \in Nat /\ stable \in BOOLEAN
  OBVIOUS
<1>7. starts \in 1 .. MaxStarts
  OBVIOUS
<1>8. \A a \in Homes : rows[a].started <= MaxStarts /\ main[a].started <= MaxStarts /\ main[a].pc = "down"
  BY <1>1, <1>3
<1> QED
  BY <1>3, <1>4, <1>5, <1>6, <1>7, <1>8 DEF ElectionTypeInv, TypeOK, RanksBounded

\* How a step rewrites single fields of the records.
LEMMA PcChanged ==
    ASSUME NEW m \in Mains, NEW pc \in {"down", "idle", "apply", "notify"}
    PROVE  /\ [m EXCEPT !.pc = pc] \in Mains
           /\ [m EXCEPT !.pc = pc].pc = pc
           /\ [m EXCEPT !.pc = pc].started = m.started
           /\ [m EXCEPT !.pc = pc].elected = m.elected
           /\ [m EXCEPT !.pc = pc].stopping = m.stopping
BY DEF Mains

LEMMA TimerChanged ==
    ASSUME NEW b \in Beliefs, NEW t \in {NoTimer} \union 0 .. Timeout
    PROVE  /\ [b EXCEPT !.timer = t] \in Beliefs
           /\ [b EXCEPT !.timer = t].isMaster = b.isMaster
           /\ [b EXCEPT !.timer = t].timer = t
BY DEF Beliefs

LEMMA BeliefReplaced ==
    ASSUME NEW b, NEW next \in BOOLEAN
    PROVE  /\ NextBelief(b, next) \in Beliefs
           /\ NextBelief(b, next).isMaster = next
           /\ next => NextBelief(b, next).timer # NoTimer
           /\ NoBelief \in Beliefs /\ NoBelief.isMaster = FALSE /\ NoBelief.timer = NoTimer
<1>1. Timeout \in {NoTimer} \union 0 .. Timeout /\ Timeout # NoTimer
  BY TimeoutAssumption DEF NoTimer
<1> QED
  BY <1>1 DEF NextBelief, Beliefs, NoBelief, NoTimer

LEMMA NoticeChanged ==
    ASSUME NEW n \in Notices, NEW at \in {"waiting", "called", "checked"}
    PROVE  /\ [n EXCEPT !.at = at] \in Notices
           /\ [n EXCEPT !.at = at].at = at
           /\ [n EXCEPT !.at = at].by = n.by
           /\ [n EXCEPT !.at = at].master = n.master
BY DEF Notices

LEMMA NewNotice ==
    ASSUME NEW by \in {"main", "timer"}, NEW v \in BOOLEAN
    PROVE  /\ [by |-> by, master |-> v, at |-> "waiting"] \in Notices
           /\ [by |-> by, master |-> v, at |-> "waiting"].at = "waiting"
           /\ [by |-> by, master |-> v, at |-> "waiting"].by = by
           /\ [by |-> by, master |-> v, at |-> "waiting"].master = v
BY DEF Notices

\* The caller's row after its upsert: live, and no other row has changed.
LEMMA BeatenRows ==
    ASSUME ElectionTypeInv, NEW a \in Homes, main[a].pc = "idle"
    PROVE  /\ Beaten(a) \in [Homes -> Rows]
           /\ a \in Live(Beaten(a))
           /\ Beaten(a)[a].started = main[a].started
           /\ Beaten(a)[a].age = 0
           /\ \A b \in Homes \ {a} : Beaten(a)[b] = rows[b]
<1> DEFINE r == rows[a]
           s == main[a].started
           z == 0
<1>1. r \in Rows /\ s \in Nat /\ s # 0 /\ z \in 0 .. Timeout + 1
  BY TimeoutAssumption DEF ElectionTypeInv, TypeOK, RanksBounded, Mains
<1>2. Beaten(a) = [rows EXCEPT ![a] = [r EXCEPT !.started = s, !.age = z]]
  BY DEF ElectionTypeInv, TypeOK, Beaten
<1>z. z = 0 /\ s = main[a].started
  OBVIOUS
<1> HIDE DEF r, s, z
<1>3. [r EXCEPT !.started = s, !.age = z] \in Rows
  BY <1>1 DEF Rows
<1>4. [r EXCEPT !.started = s, !.age = z].started = s /\ [r EXCEPT !.started = s, !.age = z].age = z
  BY <1>1 DEF Rows
<1>5. Beaten(a) \in [Homes -> Rows] /\ Beaten(a)[a] = [r EXCEPT !.started = s, !.age = z]
  BY <1>2, <1>3 DEF ElectionTypeInv, TypeOK
<1>6. \A b \in Homes \ {a} : Beaten(a)[b] = rows[b]
  BY <1>2 DEF ElectionTypeInv, TypeOK
<1>7. a \in Live(Beaten(a))
  <2>1. Beaten(a)[a].started # 0 /\ Beaten(a)[a].age <= Timeout
    BY <1>1, <1>4, <1>5, <1>z, TimeoutAssumption
  <2> QED
    BY <2>1 DEF Live
<1> QED
  BY <1>4, <1>5, <1>6, <1>7, <1>z

\* What the election transaction leaves: the elected row flagged, and the gate on it.
LEMMA FlaggedRows ==
    ASSUME NEW rs \in [Homes -> Rows], NEW e \in Homes
    PROVE  /\ Flag(rs, e) \in [Homes -> Rows]
           /\ \A b \in Homes : /\ Flag(rs, e)[b].started = rs[b].started
                               /\ Flag(rs, e)[b].age = rs[b].age
                               /\ Flag(rs, e)[b].master = (b = e)
<1>1. ASSUME NEW r \in Rows, NEW v \in BOOLEAN
      PROVE  /\ [r EXCEPT !.master = v] \in Rows
             /\ [r EXCEPT !.master = v].started = r.started
             /\ [r EXCEPT !.master = v].age = r.age
             /\ [r EXCEPT !.master = v].master = v
  BY DEF Rows
<1>2. ASSUME NEW b \in Homes
      PROVE  /\ [rs[b] EXCEPT !.master = (b = e)] \in Rows
             /\ [rs[b] EXCEPT !.master = (b = e)].started = rs[b].started
             /\ [rs[b] EXCEPT !.master = (b = e)].age = rs[b].age
             /\ [rs[b] EXCEPT !.master = (b = e)].master = (b = e)
  BY <1>1
<1>3. \A b \in Homes : Flag(rs, e)[b] = [rs[b] EXCEPT !.master = (b = e)]
  BY DEF Flag
<1> QED
  BY <1>2, <1>3 DEF Flag

LEMMA ElectionOutcome ==
    ASSUME ElectionTypeInv, NEW a \in Homes, HeartbeatAndElect(a)
    PROVE  \E e \in Live(Beaten(a)) :
             /\ e = Elected(Beaten(a))
             /\ rows' \in [Homes -> Rows]
             /\ \A b \in Homes : /\ rows'[b].started = Beaten(a)[b].started
                                 /\ rows'[b].age = Beaten(a)[b].age
                                 /\ rows'[b].master = (b = e)
             /\ gate'.home = e
             /\ gate'.started = rows'[e].started
             /\ gate'.lease = Timeout - rows'[e].age
             /\ gate'.term = IF gate.home # e \/ gate.started # rows'[e].started \/ gate.lease = 0
                             THEN gate.term + 1 ELSE gate.term
             /\ rows'[e].started # 0 /\ rows'[e].age \in 0 .. Timeout
<1> DEFINE beaten == Beaten(a)
           e == Elected(beaten)
<1>1. main[a].pc = "idle" /\ rows' = Flag(beaten, e) /\ gate' = RenewedGate(beaten, e)
  BY DEF HeartbeatAndElect
<1>2. beaten \in [Homes -> Rows] /\ Live(beaten) # {}
  BY <1>1, BeatenRows
<1>3. e \in Live(beaten)
  BY <1>2, OldestLives
<1>4. e \in Homes /\ beaten[e].started # 0 /\ beaten[e].age <= Timeout /\ beaten[e].age \in 0 .. Timeout + 1
  BY <1>2, <1>3 DEF Live, Rows
<1> HIDE DEF beaten, e
<1>5. /\ rows' \in [Homes -> Rows]
      /\ \A b \in Homes : /\ rows'[b].started = beaten[b].started
                          /\ rows'[b].age = beaten[b].age
                          /\ rows'[b].master = (b = e)
  BY <1>1, <1>2, <1>4, FlaggedRows
<1>6. /\ gate'.home = e
      /\ gate'.started = beaten[e].started
      /\ gate'.lease = Timeout - beaten[e].age
      /\ gate'.term = IF gate.home # e \/ gate.started # beaten[e].started \/ gate.lease = 0
                      THEN gate.term + 1 ELSE gate.term
  BY <1>1 DEF RenewedGate
<1>7. rows'[e].started # 0 /\ rows'[e].age \in 0 .. Timeout
  BY <1>4, <1>5, TimeoutAssumption
<1> USE DEF beaten, e
<1> QED
  BY <1>3, <1>4, <1>5, <1>6, <1>7


-------------------------------------------------------------------------------
(* The steps keep the types. *)

\* Returning from a callback moves the heartbeat loop on, and nothing else of it.
LEMMA ReturnedLoop ==
    ASSUME ElectionTypeInv, NEW a \in Homes, NEW n \in notices[a], Returns(a, n)
    PROVE  /\ main' \in [Homes -> Mains]
           /\ notices' = [notices EXCEPT ![a] = @ \ {n}]
           /\ \A b \in Homes : main'[b].started = main[b].started
           /\ \A b \in Homes : main'[b].elected = main[b].elected /\ main'[b].stopping = main[b].stopping
           /\ \A b \in Homes \ {a} : main'[b] = main[b]
           /\ main'[a].pc # main[a].pc => n.by = "main" /\ main[a].pc = "notify"
           /\ n.by = "main" /\ main[a].pc = "notify" =>
                main'[a].pc = IF main[a].stopping THEN "down" ELSE "idle"
<1>0. main \in [Homes -> Mains] /\ main[a] \in Mains
  BY DEF ElectionTypeInv, TypeOK
<1>1. CASE n.by = "main"
  <2> DEFINE pc == IF main[a].pc = "notify" THEN IF main[a].stopping THEN "down" ELSE "idle" ELSE main[a].pc
  <2>1. pc \in {"down", "idle", "apply", "notify"}
    BY <1>0 DEF Mains
  <2>2. /\ main' = [main EXCEPT ![a] = [main[a] EXCEPT !.pc = pc]]
        /\ notices' = [notices EXCEPT ![a] = @ \ {n}]
    <3>1. main' = [main EXCEPT ![a].pc = pc] /\ notices' = [notices EXCEPT ![a] = @ \ {n}]
      BY <1>0, <1>1 DEF Returns
    <3> HIDE DEF pc
    <3> QED
      BY <1>0, <3>1
  <2>3. pc # main[a].pc => main[a].pc = "notify"
    OBVIOUS
  <2>4. main[a].pc = "notify" => pc = IF main[a].stopping THEN "down" ELSE "idle"
    OBVIOUS
  <2> HIDE DEF pc
  <2>5. /\ [main[a] EXCEPT !.pc = pc] \in Mains
        /\ [main[a] EXCEPT !.pc = pc].pc = pc
        /\ [main[a] EXCEPT !.pc = pc].started = main[a].started
        /\ [main[a] EXCEPT !.pc = pc].elected = main[a].elected
        /\ [main[a] EXCEPT !.pc = pc].stopping = main[a].stopping
    BY <1>0, <2>1, PcChanged
  <2> QED
    BY <1>0, <1>1, <2>2, <2>3, <2>4, <2>5
<1>2. CASE n.by # "main"
  BY <1>0, <1>2 DEF Returns
<1> QED
  BY <1>1, <1>2

\* A step that rewrites one process only and leaves the table alone.
LEMMA OneProcessTyped ==
    ASSUME ElectionTypeInv, NEW a \in Homes,
           UNCHANGED <<rows, gate, starts, stable>>,
           main' \in [Homes -> Mains],
           \A b \in Homes : main'[b].started = main[b].started,
           \A b \in Homes : main'[b].pc # "down" => main[b].pc # "down",
           belief' \in [Homes -> Beliefs],
           expiring' \in [Homes -> SUBSET {"current", "older"}],
           notices' \in [Homes -> SUBSET Notices],
           refreshing' \in [Homes -> BOOLEAN]
    PROVE  ElectionTypeInv'
BY DEF ElectionTypeInv, TypeOK, RanksBounded

LEMMA HeartbeatLoop ==
    ASSUME ElectionTypeInv, NEW a \in Homes, HeartbeatAndElect(a)
    PROVE  /\ main' \in [Homes -> Mains]
           /\ main'[a].pc = "apply" /\ main'[a].stopping = main[a].stopping
           /\ \A b \in Homes : main'[b].started = main[b].started
           /\ \A b \in Homes \ {a} : main'[b] = main[b]
<1> DEFINE el == (Elected(Beaten(a)) = a)
           m == [main[a] EXCEPT !.pc = "apply", !.elected = el]
<1>1. main[a] \in Mains /\ main \in [Homes -> Mains]
  BY DEF ElectionTypeInv, TypeOK
<1>2. main' = [main EXCEPT ![a].pc = "apply", ![a].elected = el]
  BY DEF HeartbeatAndElect
<1>3. el \in BOOLEAN
  OBVIOUS
<1> HIDE DEF el
<1>4. main' = [main EXCEPT ![a] = m]
  BY <1>1, <1>2
<1>5. m \in Mains /\ m.pc = "apply" /\ m.started = main[a].started /\ m.stopping = main[a].stopping
  BY <1>1, <1>3 DEF Mains
<1> QED
  BY <1>1, <1>4, <1>5

LEMMA HeartbeatTyped ==
    ASSUME ElectionTypeInv, NEW a \in Homes, HeartbeatAndElect(a)
    PROVE  ElectionTypeInv'
<1>0. main[a].pc = "idle" /\ main[a] \in Mains /\ main \in [Homes -> Mains]
  BY DEF HeartbeatAndElect, ElectionTypeInv, TypeOK
<1>1. PICK e \in Live(Beaten(a)) :
             /\ e = Elected(Beaten(a))
             /\ rows' \in [Homes -> Rows]
             /\ \A b \in Homes : /\ rows'[b].started = Beaten(a)[b].started
                                 /\ rows'[b].age = Beaten(a)[b].age
                                 /\ rows'[b].master = (b = e)
             /\ gate'.home = e
             /\ gate'.started = rows'[e].started
             /\ gate'.lease = Timeout - rows'[e].age
             /\ gate'.term = IF gate.home # e \/ gate.started # rows'[e].started \/ gate.lease = 0
                             THEN gate.term + 1 ELSE gate.term
             /\ rows'[e].started # 0 /\ rows'[e].age \in 0 .. Timeout
  BY ElectionOutcome
<1>2. e \in Homes
  BY DEF Live
<1>3. gate' \in Gates
  <2> DEFINE t == gate'.term
             s == gate'.started
             l == gate'.lease
  <2>1. t \in Nat
    BY <1>1 DEF ElectionTypeInv, TypeOK, Gates
  <2>2. s \in Nat
    BY <1>1, <1>2 DEF Rows
  <2>3. l \in 0 .. Timeout
    BY <1>1, <1>2, TimeoutAssumption
  <2>4. gate' = [term |-> t, home |-> e, started |-> s, lease |-> l]
    BY <1>1 DEF HeartbeatAndElect, RenewedGate
  <2> HIDE DEF t, s, l
  <2> QED
    BY <1>2, <2>1, <2>2, <2>3, <2>4 DEF Gates
<1>4. \A b \in Homes : rows'[b].started <= MaxStarts
  BY <1>0, <1>1, BeatenRows DEF ElectionTypeInv, RanksBounded
<1>7. main' \in [Homes -> Mains] /\ \A b \in Homes : main'[b].started = main[b].started
  BY HeartbeatLoop
<1>8. \A b \in Homes : main'[b].pc # "down" => main[b].pc # "down"
  BY <1>0, HeartbeatLoop
<1> QED
  BY <1>1, <1>3, <1>4, <1>7, <1>8 DEF HeartbeatAndElect, ElectionTypeInv, TypeOK, RanksBounded

LEMMA TickTyped ==
    ASSUME ElectionTypeInv, Tick
    PROVE  /\ ElectionTypeInv'
           /\ \A a \in Homes :
                /\ rows'[a].started = rows[a].started
                /\ rows'[a].master = rows[a].master
                /\ rows'[a].age = IF rows[a].age > Timeout THEN rows[a].age ELSE rows[a].age + 1
                /\ belief'[a].isMaster = belief[a].isMaster
                /\ belief'[a].timer = IF belief[a].timer > 0 THEN belief[a].timer - 1 ELSE belief[a].timer
           /\ gate'.home = gate.home /\ gate'.started = gate.started /\ gate'.term = gate.term
           /\ gate'.lease = IF gate.lease = 0 THEN 0 ELSE gate.lease - 1
<1> USE TimeoutAssumption
<1>1. ASSUME NEW a \in Homes
      PROVE  /\ rows'[a] \in Rows
             /\ rows'[a].started = rows[a].started
             /\ rows'[a].master = rows[a].master
             /\ rows'[a].age = IF rows[a].age > Timeout THEN rows[a].age ELSE rows[a].age + 1
  <2> DEFINE r == rows[a]
             g == IF r.age > Timeout THEN r.age ELSE r.age + 1
  <2>1. r \in Rows
    BY DEF ElectionTypeInv, TypeOK
  <2>2. g \in 0 .. Timeout + 1
    BY <2>1 DEF Rows
  <2>3. rows'[a] = [r EXCEPT !.age = g]
    BY DEF Tick
  <2>g. g = IF rows[a].age > Timeout THEN rows[a].age ELSE rows[a].age + 1
    OBVIOUS
  <2> HIDE DEF g
  <2> QED
    BY <2>1, <2>2, <2>3, <2>g DEF Rows
<1>2. ASSUME NEW a \in Homes
      PROVE  /\ belief'[a] \in Beliefs
             /\ belief'[a].isMaster = belief[a].isMaster
             /\ belief'[a].timer = IF belief[a].timer > 0 THEN belief[a].timer - 1 ELSE belief[a].timer
  <2> DEFINE b == belief[a]
             t == IF b.timer > 0 THEN b.timer - 1 ELSE b.timer
  <2>1. b \in Beliefs
    BY DEF ElectionTypeInv, TypeOK
  <2>2. t \in {NoTimer} \union 0 .. Timeout
    BY <2>1 DEF Beliefs, NoTimer
  <2>3. belief'[a] = [b EXCEPT !.timer = t]
    <3>1. belief'[a] = [belief[a] EXCEPT !.timer = IF @ > 0 THEN @ - 1 ELSE @]
      BY DEF Tick
    <3> QED
      BY <3>1
  <2>t. t = IF belief[a].timer > 0 THEN belief[a].timer - 1 ELSE belief[a].timer
    OBVIOUS
  <2> HIDE DEF t
  <2> QED
    BY <2>1, <2>2, <2>3, <2>t, TimerChanged
<1>3. /\ gate' \in Gates
      /\ gate'.home = gate.home /\ gate'.started = gate.started /\ gate'.term = gate.term
      /\ gate'.lease = IF gate.lease = 0 THEN 0 ELSE gate.lease - 1
  <2> DEFINE l == IF gate.lease = 0 THEN 0 ELSE gate.lease - 1
  <2>1. gate \in Gates
    BY DEF ElectionTypeInv, TypeOK
  <2>2. l \in 0 .. Timeout
    BY <2>1 DEF Gates
  <2>3. gate' = [gate EXCEPT !.lease = l]
    BY <2>1 DEF Tick
  <2>l. l = IF gate.lease = 0 THEN 0 ELSE gate.lease - 1
    OBVIOUS
  <2> HIDE DEF l
  <2> QED
    BY <2>1, <2>2, <2>3, <2>l DEF Gates
<1>4. rows' = [a \in Homes |-> rows'[a]] /\ belief' = [a \in Homes |-> belief'[a]]
  BY DEF Tick
<1>5. rows' \in [Homes -> Rows] /\ belief' \in [Homes -> Beliefs]
  BY <1>1, <1>2, <1>4
<1>6. ElectionTypeInv'
  BY <1>1, <1>3, <1>5 DEF Tick, ElectionTypeInv, TypeOK, RanksBounded
<1> QED
  BY <1>1, <1>2, <1>3, <1>6

\* The loop and the belief of a process after setMaster.
LEMMA SetMasterOutcome ==
    ASSUME ElectionTypeInv, NEW a \in Homes, SetMaster(a)
    PROVE  /\ main' \in [Homes -> Mains] /\ belief' \in [Homes -> Beliefs]
           /\ \A b \in Homes \ {a} : main'[b] = main[b] /\ belief'[b] = belief[b]
           /\ main'[a].started = main[a].started /\ main'[a].elected = main[a].elected
           /\ main'[a].stopping = main[a].stopping
           /\ belief'[a].isMaster = main[a].elected
           /\ belief'[a].isMaster => belief'[a].timer # NoTimer
           /\ \/ /\ main'[a].pc = "notify"
                 /\ notices' = [notices EXCEPT ![a] = @ \union
                                  {[by |-> "main", master |-> main[a].elected, at |-> "waiting"]}]
              \/ /\ notices' = notices
                 /\ belief[a].isMaster = main[a].elected
                 /\ main'[a].pc = IF main[a].stopping THEN "down" ELSE "idle"
<1> DEFINE next == main[a].elected
           changed == ~ belief[a].known \/ belief[a].isMaster # next
           pc == IF changed THEN "notify" ELSE IF main[a].stopping THEN "down" ELSE "idle"
           note == [by |-> "main", master |-> next, at |-> "waiting"]
<1>0. /\ main \in [Homes -> Mains] /\ main[a] \in Mains /\ belief \in [Homes -> Beliefs]
      /\ belief[a] \in Beliefs /\ notices \in [Homes -> SUBSET Notices]
  BY DEF ElectionTypeInv, TypeOK
<1>1. next \in BOOLEAN
  BY <1>0 DEF Mains
<1>2. belief' = [belief EXCEPT ![a] = NextBelief(belief[a], next)]
  BY <1>0 DEF SetMaster
<1>3. /\ NextBelief(belief[a], next) \in Beliefs
      /\ NextBelief(belief[a], next).isMaster = next
      /\ next => NextBelief(belief[a], next).timer # NoTimer
  BY <1>1, BeliefReplaced
<1>4. main' = [main EXCEPT ![a].pc = pc]
  BY DEF SetMaster
<1>5. pc \in {"down", "idle", "apply", "notify"}
  OBVIOUS
<1>6. /\ changed => notices' = [notices EXCEPT ![a] = @ \union {note}] /\ pc = "notify"
      /\ ~ changed => /\ notices' = notices
                      /\ belief[a].isMaster = next
                      /\ pc = IF main[a].stopping THEN "down" ELSE "idle"
  BY DEF SetMaster
<1>p. pc = "notify" => changed
  OBVIOUS
<1>n. next = main[a].elected
  OBVIOUS
<1> HIDE DEF pc, changed, next
<1>7. main' = [main EXCEPT ![a] = [main[a] EXCEPT !.pc = pc]]
  BY <1>0, <1>4
<1>8. /\ [main[a] EXCEPT !.pc = pc] \in Mains
      /\ [main[a] EXCEPT !.pc = pc].pc = pc
      /\ [main[a] EXCEPT !.pc = pc].started = main[a].started
      /\ [main[a] EXCEPT !.pc = pc].elected = main[a].elected
      /\ [main[a] EXCEPT !.pc = pc].stopping = main[a].stopping
  BY <1>0, <1>5, PcChanged
<1>9. /\ main' \in [Homes -> Mains] /\ main'[a] = [main[a] EXCEPT !.pc = pc]
      /\ \A b \in Homes \ {a} : main'[b] = main[b]
  BY <1>0, <1>7, <1>8
<1>10. /\ belief' \in [Homes -> Beliefs] /\ belief'[a] = NextBelief(belief[a], next)
       /\ \A b \in Homes \ {a} : belief'[b] = belief[b]
  BY <1>0, <1>2, <1>3
<1>11. main'[a].pc = pc /\ main'[a].started = main[a].started /\ main'[a].elected = main[a].elected
       /\ main'[a].stopping = main[a].stopping
  BY <1>8, <1>9
<1>12. belief'[a].isMaster = next /\ (next => belief'[a].timer # NoTimer)
  BY <1>3, <1>10
<1>13. CASE changed
  <2>1. notices' = [notices EXCEPT ![a] = @ \union {note}] /\ main'[a].pc = "notify"
    BY <1>6, <1>11, <1>13
  <2> QED
    BY <1>9, <1>10, <1>11, <1>12, <2>1, <1>n
<1>14. CASE ~ changed
  BY <1>6, <1>9, <1>10, <1>11, <1>12, <1>14, <1>n
<1> QED
  BY <1>13, <1>14

\* A callback under way either moves on within notices[a], or returns.
LEMMA NoticeStepTyped ==
    ASSUME ElectionTypeInv, NEW a \in Homes, NoticeStep(a)
    PROVE  ElectionTypeInv'
<1>0. /\ main \in [Homes -> Mains] /\ belief \in [Homes -> Beliefs]
      /\ notices \in [Homes -> SUBSET Notices] /\ refreshing \in [Homes -> BOOLEAN]
      /\ expiring \in [Homes -> SUBSET {"current", "older"}]
  BY DEF ElectionTypeInv, TypeOK
<1>1. PICK n \in notices[a] :
        \/ NotifyMasterChanged(a, n)
        \/ CheckCanAutoRefresh(a, n)
        \/ StartAutoRefresh(a, n)
        \/ StopAutoRefresh(a, n)
  BY DEF NoticeStep
<1>2. n \in Notices
  BY <1>0
<1>3. UNCHANGED <<rows, gate, belief, expiring, starts, stable>> /\ refreshing' \in [Homes -> BOOLEAN]
  BY <1>0, <1>1 DEF NotifyMasterChanged, CheckCanAutoRefresh, StartAutoRefresh, StopAutoRefresh
<1>4. CASE Returns(a, n)
  <2>1. /\ main' \in [Homes -> Mains]
        /\ notices' = [notices EXCEPT ![a] = @ \ {n}]
        /\ \A b \in Homes : main'[b].started = main[b].started
        /\ \A b \in Homes \ {a} : main'[b] = main[b]
        /\ main'[a].pc # main[a].pc => main[a].pc = "notify"
    BY <1>4, ReturnedLoop
  <2>2. \A b \in Homes : main'[b].pc # "down" => main[b].pc # "down"
    BY <2>1
  <2>3. notices' \in [Homes -> SUBSET Notices]
    BY <1>0, <2>1
  <2> QED
    BY <1>0, <1>3, <2>1, <2>2, <2>3, OneProcessTyped
<1>5. CASE UNCHANGED main /\ \E at \in {"called", "checked"} :
             notices' = [notices EXCEPT ![a] = (@ \ {n}) \union {[n EXCEPT !.at = at]}]
  <2>1. PICK at \in {"called", "checked"} :
             notices' = [notices EXCEPT ![a] = (@ \ {n}) \union {[n EXCEPT !.at = at]}]
    BY <1>5
  <2>2. [n EXCEPT !.at = at] \in Notices
    BY <1>2, NoticeChanged
  <2>3. notices' \in [Homes -> SUBSET Notices]
    BY <1>0, <2>1, <2>2
  <2> QED
    BY <1>0, <1>3, <1>5, <2>3, OneProcessTyped
<1> QED
  BY <1>1, <1>4, <1>5 DEF NotifyMasterChanged, CheckCanAutoRefresh, StartAutoRefresh, StopAutoRefresh

\* Every step keeps the types and the ranks.
LEMMA ElectionTypeStep == ElectionTypeInv /\ [Next]_vars => ElectionTypeInv'
<1> SUFFICES ASSUME ElectionTypeInv, [Next]_vars PROVE ElectionTypeInv'
  OBVIOUS
<1>0. /\ rows \in [Homes -> Rows]
      /\ main \in [Homes -> Mains] /\ belief \in [Homes -> Beliefs]
      /\ notices \in [Homes -> SUBSET Notices] /\ refreshing \in [Homes -> BOOLEAN]
      /\ expiring \in [Homes -> SUBSET {"current", "older"}]
  BY DEF ElectionTypeInv, TypeOK
<1>1. ASSUME NEW a \in Homes, SetMaster(a) PROVE ElectionTypeInv'
  <2>1. /\ main' \in [Homes -> Mains] /\ belief' \in [Homes -> Beliefs]
        /\ \A b \in Homes \ {a} : main'[b] = main[b]
        /\ main'[a].started = main[a].started
        /\ \/ notices' = notices
           \/ notices' = [notices EXCEPT ![a] = @ \union
                            {[by |-> "main", master |-> main[a].elected, at |-> "waiting"]}]
    BY <1>1, SetMasterOutcome
  <2>2. main[a].pc = "apply" /\ UNCHANGED <<rows, gate, starts, stable>>
    BY <1>1 DEF SetMaster
  <2>3. main[a].elected \in BOOLEAN
    BY <1>0 DEF Mains
  <2>4. [by |-> "main", master |-> main[a].elected, at |-> "waiting"] \in Notices
    BY <2>3, NewNotice
  <2>5. notices' \in [Homes -> SUBSET Notices]
    BY <1>0, <2>1, <2>4
  <2>6. expiring' \in [Homes -> SUBSET {"current", "older"}] /\ refreshing' \in [Homes -> BOOLEAN]
    BY <1>0, <1>1 DEF SetMaster
  <2>7. \A b \in Homes : main'[b].started = main[b].started
    BY <2>1
  <2>8. \A b \in Homes : main'[b].pc # "down" => main[b].pc # "down"
    BY <2>1, <2>2
  <2> QED
    BY <2>1, <2>2, <2>5, <2>6, <2>7, <2>8, OneProcessTyped
<1>2. ASSUME NEW a \in Homes, TimerFires(a) PROVE ElectionTypeInv'
  <2> DEFINE t == NoTimer
  <2>1. t \in {NoTimer} \union 0 .. Timeout
    OBVIOUS
  <2> HIDE DEF t
  <2>2. [belief[a] EXCEPT !.timer = t] \in Beliefs
    BY <1>0, <2>1, TimerChanged
  <2>3. belief' = [belief EXCEPT ![a] = [belief[a] EXCEPT !.timer = t]]
    BY <1>0, <1>2 DEF TimerFires, t
  <2>4. belief' \in [Homes -> Beliefs]
    BY <1>0, <2>2, <2>3
  <2>5. expiring' \in [Homes -> SUBSET {"current", "older"}]
    BY <1>0, <1>2 DEF TimerFires
  <2> QED
    BY <1>0, <1>2, <2>4, <2>5, OneProcessTyped DEF TimerFires
<1>3. ASSUME NEW a \in Homes, NEW lease \in {"current", "older"}, ExpireMasterLease(a, lease)
      PROVE ElectionTypeInv'
  <2>1. expiring' \in [Homes -> SUBSET {"current", "older"}]
    BY <1>0, <1>3 DEF ExpireMasterLease
  <2>2. [belief[a] EXCEPT !.isMaster = FALSE] \in Beliefs
    BY <1>0 DEF Beliefs
  <2>3. belief' \in [Homes -> Beliefs]
    <3> DEFINE d == [belief[a] EXCEPT !.isMaster = FALSE]
    <3>1. belief' = [belief EXCEPT ![a] = d] \/ belief' = belief
      BY <1>0, <1>3 DEF ExpireMasterLease
    <3>2. d \in Beliefs
      BY <2>2
    <3> HIDE DEF d
    <3> QED
      BY <1>0, <3>1, <3>2
  <2>4. [by |-> "timer", master |-> FALSE, at |-> "waiting"] \in Notices
    BY NewNotice
  <2>5. notices' \in [Homes -> SUBSET Notices]
    <3> DEFINE note == [by |-> "timer", master |-> FALSE, at |-> "waiting"]
    <3>1. notices' = [notices EXCEPT ![a] = @ \union {note}] \/ notices' = notices
      BY <1>3 DEF ExpireMasterLease
    <3>2. note \in Notices
      BY <2>4
    <3> HIDE DEF note
    <3> QED
      BY <1>0, <3>1, <3>2
  <2> QED
    BY <1>0, <1>3, <2>1, <2>3, <2>5, OneProcessTyped DEF ExpireMasterLease
<1>4. ASSUME NEW a \in Homes, NEW started \in 1 .. MaxStarts, Initialize(a, started) PROVE ElectionTypeInv'
  <2> DEFINE m == [pc |-> "idle", started |-> started, elected |-> FALSE, stopping |-> FALSE]
  <2>1. m \in Mains /\ m.started = started /\ started # 0 /\ started <= MaxStarts
    BY DEF Mains
  <2>2. main' = [main EXCEPT ![a] = m]
    BY <1>4 DEF Initialize
  <2> HIDE DEF m
  <2>3. main' \in [Homes -> Mains] /\ main'[a] = m /\ \A b \in Homes \ {a} : main'[b] = main[b]
    BY <1>0, <2>1, <2>2
  <2>4. belief' \in [Homes -> Beliefs]
    BY <1>0, <1>4, BeliefReplaced, TRUE \in BOOLEAN DEF Initialize
  <2> QED
    BY <1>4, <2>1, <2>3, <2>4 DEF Initialize, ElectionTypeInv, TypeOK, RanksBounded
<1>5. ASSUME NEW a \in Homes, StopLoop(a) PROVE ElectionTypeInv'
  <2> DEFINE m == [main[a] EXCEPT !.pc = "apply", !.elected = FALSE, !.stopping = TRUE]
  <2>1. m \in Mains /\ m.started = main[a].started
    BY <1>0 DEF Mains
  <2>2. main' = [main EXCEPT ![a] = m]
    BY <1>0, <1>5 DEF StopLoop
  <2> HIDE DEF m
  <2>3. main' \in [Homes -> Mains] /\ main'[a] = m /\ \A b \in Homes \ {a} : main'[b] = main[b]
    BY <1>0, <2>1, <2>2
  <2>4. main[a].pc = "idle" /\ UNCHANGED <<rows, gate, belief, expiring, notices, refreshing, starts, stable>>
    BY <1>5 DEF StopLoop
  <2>5. \A b \in Homes : main'[b].started = main[b].started /\ (main'[b].pc # "down" => main[b].pc # "down")
    BY <2>1, <2>3, <2>4
  <2> QED
    BY <1>0, <2>3, <2>4, <2>5, OneProcessTyped
<1>6. ASSUME NEW a \in Homes, Crash(a) PROVE ElectionTypeInv'
  <2> DEFINE m == [main[a] EXCEPT !.pc = "down"]
  <2>1. m \in Mains /\ m.started = main[a].started /\ m.pc = "down"
    BY <1>0 DEF Mains
  <2>2. main' = [main EXCEPT ![a] = m]
    BY <1>0, <1>6 DEF Crash
  <2> HIDE DEF m
  <2>3. main' \in [Homes -> Mains] /\ main'[a] = m /\ \A b \in Homes \ {a} : main'[b] = main[b]
    BY <1>0, <2>1, <2>2
  <2>4. NoBelief \in Beliefs
    BY BeliefReplaced, TRUE \in BOOLEAN
  <2>5. /\ belief' \in [Homes -> Beliefs] /\ expiring' \in [Homes -> SUBSET {"current", "older"}]
        /\ notices' \in [Homes -> SUBSET Notices] /\ refreshing' \in [Homes -> BOOLEAN]
        /\ UNCHANGED <<rows, gate, starts, stable>>
    BY <1>0, <1>6, <2>4 DEF Crash
  <2>6. \A b \in Homes : main'[b].started = main[b].started /\ (main'[b].pc # "down" => main[b].pc # "down")
    BY <2>1, <2>3
  <2> QED
    BY <2>3, <2>5, <2>6, OneProcessTyped
<1>7. CASE Stabilise
  BY <1>7 DEF Stabilise, ElectionTypeInv, TypeOK, RanksBounded
<1>8. CASE UNCHANGED vars
  BY <1>8 DEF vars, ElectionTypeInv, TypeOK, RanksBounded
<1> QED
  BY <1>1, <1>2, <1>3, <1>4, <1>5, <1>6, <1>7, <1>8, HeartbeatTyped, TickTyped, NoticeStepTyped DEF Next


\* Type correctness: the rows, the gate, the loops, the beliefs and the callbacks
\* keep their shape, and no rank passes the bound.
THEOREM ElectionTypes == Spec => []ElectionTypeInv
<1> QED
  BY InitElectionType, ElectionTypeStep, PTL DEF Spec

-------------------------------------------------------------------------------
(* The gate. *)

(***************************************************************************)
(* What the gate row knows: exactly its home's row is flagged as the       *)
(* master, in the incarnation it was elected in, and what is left of the   *)
(* lease is what is left until that row stops being live.                  *)
(***************************************************************************)
GateInv ==
    /\ \A a \in Homes : rows[a].master <=> a = gate.home
    /\ gate.home = 0 => gate.lease = 0
    /\ gate.home # 0 =>
        /\ gate.started = rows[gate.home].started
        /\ gate.started # 0
        /\ gate.lease = IF rows[gate.home].age <= Timeout
                        THEN Timeout - rows[gate.home].age ELSE 0

LEMMA GateStep ==
    ASSUME ElectionTypeInv, GateInv, [Next]_vars
    PROVE  GateInv' /\ [Gate!LeadershipNext]_Gate!leadership
<1> DEFINE Kept == UNCHANGED <<rows, gate>>
<1>0. gate \in Gates /\ rows \in [Homes -> Rows] /\ gate.home \in Homes \union {0} /\ gate.lease \in 0 .. Timeout
  BY DEF ElectionTypeInv, TypeOK, Gates
<1>z. 0 \notin Homes
  BY HomesAssumption
<1>1. ASSUME NEW a \in Homes, HeartbeatAndElect(a)
      PROVE  GateInv' /\ [Gate!LeadershipNext]_Gate!leadership
  <2>0. main[a].pc = "idle"
    BY <1>1 DEF HeartbeatAndElect
  <2>1. PICK e \in Live(Beaten(a)) :
             /\ rows' \in [Homes -> Rows]
             /\ \A b \in Homes : /\ rows'[b].started = Beaten(a)[b].started
                                 /\ rows'[b].age = Beaten(a)[b].age
                                 /\ rows'[b].master = (b = e)
             /\ gate'.home = e
             /\ gate'.started = rows'[e].started
             /\ gate'.lease = Timeout - rows'[e].age
             /\ gate'.term = IF gate.home # e \/ gate.started # rows'[e].started \/ gate.lease = 0
                             THEN gate.term + 1 ELSE gate.term
             /\ rows'[e].started # 0 /\ rows'[e].age \in 0 .. Timeout
    BY <1>1, ElectionOutcome
  <2>2. e \in Homes /\ e # 0
    BY <1>z DEF Live
  <2>3. GateInv'
    <3>1. /\ \A b \in Homes : rows'[b].master <=> b = gate'.home
          /\ gate'.home # 0 /\ gate'.started = rows'[gate'.home].started /\ gate'.started # 0
      BY <2>1, <2>2
    <3>2. gate'.lease = IF rows'[gate'.home].age <= Timeout THEN Timeout - rows'[gate'.home].age ELSE 0
      BY <2>1, <2>2, TimeoutAssumption
    <3> QED
      BY <3>1, <3>2 DEF GateInv
  <2>4. ElectionTypeInv'
    BY <1>1, HeartbeatTyped
  <2>5. <<e, gate'.started>> \in Homes \X (1 .. MaxStarts)
    <3>1. rows'[e].started \in Nat
      BY <2>1, <2>2 DEF Rows
    <3>2. rows'[e].started <= MaxStarts
      BY <2>2, <2>4 DEF ElectionTypeInv, RanksBounded
    <3>3. rows'[e].started \in 1 .. MaxStarts
      BY <2>1, <3>1, <3>2, MaxStartsAssumption
    <3> QED
      BY <2>1, <2>2, <3>3
  <2>6. CASE gate.home # e \/ gate.started # rows'[e].started \/ gate.lease = 0
    <3>1. gate'.term = gate.term + 1 /\ <<gate'.home, gate'.started>> = <<e, gate'.started>>
      BY <2>1, <2>6
    <3>2. <<e, gate'.started>> # <<gate.home, gate.started>> \/ ~ (gate.lease > 0)
      BY <2>1, <2>6, <1>0
    <3>3. Gate!Elect(<<e, gate'.started>>, gate'.lease > 0)
      BY <3>1, <3>2 DEF Gate!Elect
    <3>4. \E l \in Homes \X (1 .. MaxStarts), v \in BOOLEAN : Gate!Elect(l, v)
      <4> DEFINE v == (gate'.lease > 0)
                 l == <<e, gate'.started>>
      <4>1. v \in BOOLEAN /\ l \in Homes \X (1 .. MaxStarts) /\ Gate!Elect(l, v)
        BY <2>5, <3>3
      <4> HIDE DEF v, l
      <4> QED
        BY <4>1
    <3>5. Gate!LeadershipNext
      BY <3>4 DEF Gate!LeadershipNext
    <3> QED
      BY <2>3, <3>5
  <2>7. CASE ~ (gate.home # e \/ gate.started # rows'[e].started \/ gate.lease = 0)
    <3>1. gate'.term = gate.term /\ gate'.home = gate.home /\ gate'.started = gate.started /\ gate.lease > 0
      BY <2>1, <2>7, <1>0
    <3>2. CASE gate'.lease > 0
      BY <2>3, <3>1, <3>2 DEF Gate!leadership
    <3>3. CASE ~ (gate'.lease > 0)
      BY <2>3, <3>1, <3>3 DEF Gate!Lapse, Gate!LeadershipNext
    <3> QED
      BY <3>2, <3>3
  <2> QED
    BY <2>6, <2>7
<1>2. CASE Tick
  <2>1. /\ \A a \in Homes :
             /\ rows'[a].started = rows[a].started
             /\ rows'[a].master = rows[a].master
             /\ rows'[a].age = IF rows[a].age > Timeout THEN rows[a].age ELSE rows[a].age + 1
        /\ gate'.home = gate.home /\ gate'.started = gate.started /\ gate'.term = gate.term
        /\ gate'.lease = IF gate.lease = 0 THEN 0 ELSE gate.lease - 1
    BY <1>2, TickTyped
  <2>2. GateInv'
    <3>1. CASE gate.home = 0
      BY <2>1, <3>1 DEF GateInv
    <3>2. CASE gate.home # 0
      <4>1. gate.home \in Homes /\ rows[gate.home].age \in 0 .. Timeout + 1 /\ Timeout \in Nat
        BY <1>0, <3>2, TimeoutAssumption DEF Rows
      <4>2. gate'.lease = IF rows'[gate.home].age <= Timeout THEN Timeout - rows'[gate.home].age ELSE 0
        BY <2>1, <3>2, <4>1 DEF GateInv
      <4>3. gate'.started = rows'[gate'.home].started /\ gate'.started # 0
        BY <2>1, <3>2, <4>1 DEF GateInv
      <4>4. \A a \in Homes : rows'[a].master <=> a = gate'.home
        BY <2>1 DEF GateInv
      <4> QED
        BY <2>1, <3>2, <4>2, <4>3, <4>4 DEF GateInv
    <3> QED
      BY <3>1, <3>2
  <2>3. CASE gate.lease > 0 /\ ~ (gate'.lease > 0)
    BY <2>1, <2>2, <2>3 DEF Gate!Lapse, Gate!LeadershipNext
  <2>4. CASE gate.lease > 0 /\ gate'.lease > 0
    BY <2>1, <2>2, <2>4 DEF Gate!leadership
  <2>5. CASE ~ (gate.lease > 0)
    <3>1. gate.lease = 0 /\ gate'.lease = 0
      BY <1>0, <2>1, <2>5
    <3> QED
      BY <2>1, <2>2, <3>1 DEF Gate!leadership
  <2> QED
    BY <2>3, <2>4, <2>5
<1>3. ASSUME UNCHANGED <<rows, gate>>
      PROVE  GateInv' /\ [Gate!LeadershipNext]_Gate!leadership
  BY <1>3 DEF GateInv, Gate!leadership
<1>4. CASE \E a \in Homes : SetMaster(a) \/ TimerFires(a) \/ \E lease \in {"current", "older"} : ExpireMasterLease(a, lease)
  BY <1>3, <1>4 DEF SetMaster, TimerFires, ExpireMasterLease
<1>5. CASE \E a \in Homes : NoticeStep(a)
  BY <1>3, <1>5 DEF NoticeStep, NotifyMasterChanged, CheckCanAutoRefresh, StartAutoRefresh, StopAutoRefresh
<1>6. CASE \E a \in Homes : StopLoop(a) \/ Crash(a) \/ \E started \in 1 .. MaxStarts : Initialize(a, started)
  BY <1>3, <1>6 DEF StopLoop, Crash, Initialize
<1>7. CASE Stabilise \/ UNCHANGED vars
  BY <1>3, <1>7 DEF Stabilise, vars
<1> QED
  BY <1>1, <1>2, <1>4, <1>5, <1>6, <1>7 DEF Next

LEMMA GateInit == Init => GateInv /\ Gate!LeadershipInit
<1> SUFFICES ASSUME Init PROVE GateInv /\ Gate!LeadershipInit
  OBVIOUS
<1>1. gate.home = 0 /\ gate.lease = 0 /\ gate.term = 0 /\ gate.started = 0
  BY DEF Init
<1>2. \A a \in Homes : rows[a].master = FALSE
  BY DEF Init
<1>3. GateInv
  BY <1>1, <1>2, HomesAssumption DEF GateInv
<1>4. Gate!LeadershipInit
  BY <1>1 DEF Gate!LeadershipInit
<1> QED
  BY <1>3, <1>4

(***************************************************************************)
(* The gate row implements the abstract leadership the rebalancer decides  *)
(* under: a term has one master, and a lease that has run out is only ever *)
(* followed by a new term, whatever heartbeats, stalls and restarts happen.*)
(***************************************************************************)
THEOREM GateImplementsLeadership == Spec => GateIsLeadership
<1>1. Init => ElectionTypeInv /\ GateInv /\ Gate!LeadershipInit
  BY InitElectionType, GateInit
<1>2. (ElectionTypeInv /\ GateInv) /\ [Next]_vars
        => (ElectionTypeInv /\ GateInv)' /\ [Gate!LeadershipNext]_Gate!leadership
  BY ElectionTypeStep, GateStep
<1> QED
  BY <1>1, <1>2, PTL DEF Spec, GateIsLeadership, Gate!LeadershipSpec

LEMMA LeaseHolder ==
    ASSUME ElectionTypeInv, GateInv
    PROVE  LeaseHolderIsCurrentMaster
<1> SUFFICES ASSUME gate.lease > 0
             PROVE  CurrentMaster = gate.home /\ rows[gate.home].started = gate.started
  BY DEF LeaseHolderIsCurrentMaster
<1> DEFINE h == gate.home
           masters == {a \in Live(rows) : rows[a].master}
<1>1. h # 0 /\ h \in Homes /\ h \in Nat
  <2>1. gate.home \in Homes \union {0} /\ gate.home # 0
    BY DEF GateInv, ElectionTypeInv, TypeOK, Gates
  <2> QED
    BY <2>1, HomesAssumption
<1>2. rows[h].age <= Timeout /\ rows[h].started # 0 /\ rows[h].started = gate.started
  BY <1>1, TimeoutAssumption DEF GateInv, ElectionTypeInv, TypeOK, Rows
<1>3. masters = {h}
  BY <1>1, <1>2 DEF GateInv, Live
<1>4. \A a : a \in {h} /\ (\A b \in {h} : Before(rows, a, b)) => a = h
  OBVIOUS
<1>5. \A b \in {h} : Before(rows, h, b)
  BY <1>1 DEF Before
<1>6. CurrentMaster = CHOOSE a \in {h} : \A b \in {h} : Before(rows, a, b)
  BY <1>3 DEF CurrentMaster
<1> HIDE DEF h, masters
<1> QED
  <2>1. CurrentMaster = h
    BY <1>4, <1>5, <1>6
  <2> QED
    BY <1>2, <2>1 DEF h

-------------------------------------------------------------------------------
(* The belief and its timer. *)

\* A belief runs on its timer or on the expiry that timer fired; while an expiry of
\* the current lease is under way, its timer is not armed.
TimerInv ==
    /\ BeliefExpires
    /\ \A a \in Homes : "current" \in expiring[a] => belief[a].timer = NoTimer

LEMMA TimerStep ==
    ASSUME ElectionTypeInv, TimerInv, [Next]_vars
    PROVE  /\ TimerInv'
           /\ [\A a \in Homes :
                 belief[a].isMaster /\ ~ belief'[a].isMaster /\ main[a] = main'[a] =>
                    belief[a].timer = NoTimer]_vars
<1> DEFINE Goal == /\ TimerInv'
                   /\ \A a \in Homes : belief[a].isMaster /\ ~ belief'[a].isMaster /\ main[a] = main'[a] =>
                        belief[a].timer = NoTimer
<1>0. /\ main \in [Homes -> Mains] /\ belief \in [Homes -> Beliefs]
      /\ expiring \in [Homes -> SUBSET {"current", "older"}]
  BY DEF ElectionTypeInv, TypeOK
<1>1. ASSUME NEW a \in Homes, SetMaster(a) PROVE Goal
  <2>1. /\ \A b \in Homes \ {a} : belief'[b] = belief[b]
        /\ belief'[a].isMaster => belief'[a].timer # NoTimer
        /\ \/ main'[a].pc = "notify"
           \/ main'[a].pc = IF main[a].stopping THEN "down" ELSE "idle"
    BY <1>1, SetMasterOutcome
  <2>2. main[a].pc = "apply"
    BY <1>1 DEF SetMaster
  <2>3. main'[a] # main[a]
    BY <2>1, <2>2
  <2>4. "current" \notin expiring'[a] /\ \A b \in Homes \ {a} : expiring'[b] = expiring[b]
    BY <1>0, <1>1 DEF SetMaster
  <2> QED
    BY <2>1, <2>3, <2>4 DEF TimerInv, BeliefExpires
<1>2. ASSUME NEW a \in Homes, TimerFires(a) PROVE Goal
  <2>1. /\ belief'[a].isMaster = belief[a].isMaster /\ belief'[a].timer = NoTimer
        /\ \A b \in Homes \ {a} : belief'[b] = belief[b]
    <3> DEFINE t == NoTimer
    <3>1. t \in {NoTimer} \union 0 .. Timeout /\ t = NoTimer
      OBVIOUS
    <3>2. belief' = [belief EXCEPT ![a].timer = t]
      BY <1>2 DEF TimerFires
    <3> HIDE DEF t
    <3>3. /\ [belief[a] EXCEPT !.timer = t].isMaster = belief[a].isMaster
          /\ [belief[a] EXCEPT !.timer = t].timer = t
      BY <1>0, <3>1, TimerChanged
    <3>4. belief' = [belief EXCEPT ![a] = [belief[a] EXCEPT !.timer = t]]
      BY <1>0, <3>2
    <3> QED
      BY <1>0, <3>1, <3>3, <3>4
  <2>2. "current" \in expiring'[a] /\ \A b \in Homes \ {a} : expiring'[b] = expiring[b]
    BY <1>0, <1>2 DEF TimerFires
  <2> QED
    BY <2>1, <2>2 DEF TimerInv, BeliefExpires
<1>3. ASSUME NEW a \in Homes, NEW lease \in {"current", "older"}, ExpireMasterLease(a, lease) PROVE Goal
  <2> DEFINE d == [belief[a] EXCEPT !.isMaster = FALSE]
  <2>1. d.timer = belief[a].timer /\ d.isMaster = FALSE
    BY <1>0 DEF Beliefs
  <2>2. \/ lease = "current" /\ belief[a].isMaster /\ belief' = [belief EXCEPT ![a] = d]
        \/ ~ (lease = "current" /\ belief[a].isMaster) /\ belief' = belief
    <3> DEFINE no == FALSE
    <3>1. IF lease = "current" /\ belief[a].isMaster
          THEN belief' = [belief EXCEPT ![a].isMaster = no] ELSE belief' = belief
      BY <1>3 DEF ExpireMasterLease
    <3>2. d = [belief[a] EXCEPT !.isMaster = no]
      OBVIOUS
    <3> HIDE DEF no, d
    <3>3. CASE lease = "current" /\ belief[a].isMaster
      <4>1. belief' = [belief EXCEPT ![a].isMaster = no]
        BY <3>1, <3>3
      <4>2. belief' = [belief EXCEPT ![a] = d]
        BY <1>0, <3>2, <4>1
      <4> QED
        BY <3>3, <4>2
    <3>4. CASE ~ (lease = "current" /\ belief[a].isMaster)
      BY <3>1, <3>4
    <3> QED
      BY <3>3, <3>4
  <2>3. lease \in expiring[a] /\ expiring' = [expiring EXCEPT ![a] = @ \ {lease}]
    BY <1>3 DEF ExpireMasterLease
  <2> HIDE DEF d
  <2>4. CASE lease = "current" /\ belief[a].isMaster /\ belief' = [belief EXCEPT ![a] = d]
    <3>1. belief'[a] = d /\ \A b \in Homes \ {a} : belief'[b] = belief[b] /\ expiring'[b] = expiring[b]
      BY <1>0, <2>3, <2>4
    <3>2. expiring'[a] \subseteq expiring[a]
      BY <1>0, <2>3
    <3> QED
      BY <2>1, <2>3, <2>4, <3>1, <3>2 DEF TimerInv, BeliefExpires
  <2>5. CASE ~ (lease = "current" /\ belief[a].isMaster) /\ belief' = belief
    <3>1. /\ \A b \in Homes : expiring'[b] \subseteq expiring[b]
          /\ \A b \in Homes \ {a} : expiring'[b] = expiring[b]
          /\ lease # "current" => ("current" \in expiring'[a] <=> "current" \in expiring[a])
      BY <1>0, <2>3
    <3> QED
      BY <2>5, <3>1 DEF TimerInv, BeliefExpires
  <2> QED
    BY <2>2, <2>4, <2>5
<1>4. ASSUME NEW a \in Homes, Crash(a) \/ \E started \in 1 .. MaxStarts : Initialize(a, started) PROVE Goal
  <2>1. belief' = [belief EXCEPT ![a] = NoBelief]
    BY <1>4 DEF Crash, Initialize
  <2>2. \A b \in Homes : expiring'[b] \subseteq expiring[b] /\ (b # a => expiring'[b] = expiring[b])
    BY <1>0, <1>4 DEF Crash, Initialize
  <2>3. NoBelief.isMaster = FALSE /\ NoBelief.timer = NoTimer
    BY BeliefReplaced, TRUE \in BOOLEAN
  <2>4. main[a].pc # main'[a].pc
    <3>1. CASE Crash(a)
      BY <1>0, <3>1 DEF Crash, Up
    <3>2. CASE \E started \in 1 .. MaxStarts : Initialize(a, started)
      BY <1>0, <3>2 DEF Initialize
    <3> QED
      BY <1>4, <3>1, <3>2
  <2>5. belief'[a] = NoBelief /\ \A b \in Homes \ {a} : belief'[b] = belief[b]
    BY <1>0, <2>1
  <2> QED
    BY <2>2, <2>3, <2>4, <2>5 DEF TimerInv, BeliefExpires
<1>5. ASSUME Tick PROVE Goal
  <2>1. \A a \in Homes :
          /\ belief'[a].isMaster = belief[a].isMaster
          /\ belief'[a].timer = IF belief[a].timer > 0 THEN belief[a].timer - 1 ELSE belief[a].timer
    BY <1>5, TickTyped
  <2>2. \A a \in Homes : belief[a].timer \in {NoTimer} \union 0 .. Timeout
    BY <1>0 DEF Beliefs
  <2>3. \A a \in Homes : belief'[a].timer = NoTimer <=> belief[a].timer = NoTimer
    BY <2>1, <2>2, TimeoutAssumption DEF NoTimer
  <2>4. expiring' = expiring
    BY <1>5 DEF Tick
  <2> QED
    BY <2>1, <2>3, <2>4 DEF TimerInv, BeliefExpires
<1>6. ASSUME UNCHANGED <<belief, expiring>> PROVE Goal
  BY <1>6 DEF TimerInv, BeliefExpires
<1>7. ASSUME NEW a \in Homes, HeartbeatAndElect(a) \/ NoticeStep(a) \/ StopLoop(a) PROVE Goal
  BY <1>6, <1>7 DEF HeartbeatAndElect, NoticeStep, NotifyMasterChanged, CheckCanAutoRefresh,
                    StartAutoRefresh, StopAutoRefresh, StopLoop
<1>8. ASSUME Stabilise \/ UNCHANGED vars PROVE Goal
  BY <1>6, <1>8 DEF Stabilise, vars
<1> HIDE DEF Goal
<1>9. Goal
  <2>1. ASSUME NEW a \in Homes,
               \/ HeartbeatAndElect(a)
               \/ SetMaster(a)
               \/ TimerFires(a)
               \/ \E lease \in {"current", "older"} : ExpireMasterLease(a, lease)
               \/ NoticeStep(a)
               \/ \E started \in 1 .. MaxStarts : Initialize(a, started)
               \/ StopLoop(a)
               \/ Crash(a)
        PROVE  Goal
    BY <1>1, <1>2, <1>3, <1>4, <1>7, <2>1
  <2> QED
    BY <1>5, <1>8, <2>1 DEF Next
<1> QED
  BY <1>9 DEF Goal

(***************************************************************************)
(* An expiry that was called before a renewal never ends the renewed       *)
(* belief: a process that stops believing on its own has seen the timer of *)
(* its current lease fire.                                                 *)
(***************************************************************************)
THEOREM RenewalsHold == Spec => RenewalOutlivesOlderExpiry
<1> DEFINE Outlives ==
      \A a \in Homes :
        belief[a].isMaster /\ ~ belief'[a].isMaster /\ main[a] = main'[a] =>
            belief[a].timer = NoTimer
<1>1. Init => ElectionTypeInv /\ TimerInv
  <2>1. Init => TimerInv
    BY BeliefReplaced, TRUE \in BOOLEAN DEF Init, TimerInv, BeliefExpires
  <2> QED
    BY <2>1, InitElectionType
<1>2. (ElectionTypeInv /\ TimerInv) /\ [Next]_vars => (ElectionTypeInv /\ TimerInv)' /\ [Outlives]_vars
  BY ElectionTypeStep, TimerStep
<1> QED
  BY <1>1, <1>2, PTL DEF Spec, RenewalOutlivesOlderExpiry

-------------------------------------------------------------------------------
(* The callbacks under way. *)

(***************************************************************************)
(* One process with the loop m, the belief isMaster, the callbacks ns and  *)
(* the auto refresh r.  At most one callback holds the mutex, the          *)
(* heartbeat loop waits for its own, and whatever a callback is about to   *)
(* do wrong, another one that will put it right is still to come.          *)
(***************************************************************************)
InOrder(m, isMaster, ns, r) ==
    /\ m.stopping => ~ m.elected
    /\ m.pc = "idle" => ~ m.stopping
    /\ m.pc = "down" => ~ r
    /\ \A n \in ns : n.by = "timer" => ~ n.master
    /\ \A n \in ns : n.by = "main" => m.pc = "notify" /\ (n.master <=> m.elected)
    /\ \A n, k \in ns : n.by = "main" /\ k.by = "main" => n = k
    /\ \A n, k \in ns : n.at # "waiting" /\ k.at # "waiting" => n = k
    /\ \A n \in ns : n.at = "checked" => n.master /\ (isMaster \/ \E k \in ns : ~ k.master)
    /\ \A n \in ns : n.at = "called" /\ ~ n.master => ~ isMaster \/ \E k \in ns : k.master
    /\ m.pc # "down" /\ ~ (r <=> isMaster) => \E n \in ns : n.master <=> isMaster

NoticeInv ==
    \A a \in Homes : InOrder(main[a], belief[a].isMaster, notices[a], refreshing[a])

\* What a step of the process a must show: the other processes are left alone.
LEMMA OneProcessInOrder ==
    ASSUME NoticeInv, NEW a \in Homes,
           \A b \in Homes \ {a} : /\ main'[b] = main[b] /\ belief'[b].isMaster = belief[b].isMaster
                                  /\ notices'[b] = notices[b] /\ refreshing'[b] = refreshing[b],
           InOrder(main'[a], belief'[a].isMaster, notices'[a], refreshing'[a])
    PROVE  NoticeInv'
BY DEF NoticeInv

\* A callback that returns leaves the others to finish what it did not do.
LEMMA ReturnInOrder ==
    ASSUME NEW m \in Mains, NEW k \in Mains, NEW isMaster \in BOOLEAN, NEW ns \in SUBSET Notices,
           NEW r \in BOOLEAN, NEW n \in ns, NEW s \in BOOLEAN,
           InOrder(m, isMaster, ns, r),
           k.elected = m.elected, k.stopping = m.stopping,
           k.pc # m.pc => n.by = "main" /\ m.pc = "notify",
           n.by = "main" /\ m.pc = "notify" => k.pc = IF m.stopping THEN "down" ELSE "idle",
           k.pc = "down" => ~ s,
           k.pc # "down" /\ ~ (s <=> isMaster) => \E w \in ns : w # n /\ (w.master <=> isMaster),
           n.at = "waiting" => ~ (n.master <=> isMaster) /\ \A w \in ns : w.at = "waiting"
    PROVE  InOrder(k, isMaster, ns \ {n}, s)
<1> USE DEF InOrder
<1>1. k.stopping => ~ k.elected
  OBVIOUS
<1>2. k.pc = "idle" => ~ k.stopping
  OBVIOUS
<1>3. \A w \in ns \ {n} : w.by = "main" => k.pc = "notify" /\ (w.master <=> k.elected)
  OBVIOUS
<1>4. \A w \in ns \ {n} : w.by = "timer" => ~ w.master
  OBVIOUS
<1>5. /\ \A w, v \in ns \ {n} : w.by = "main" /\ v.by = "main" => w = v
      /\ \A w, v \in ns \ {n} : w.at # "waiting" /\ v.at # "waiting" => w = v
  OBVIOUS
<1>6. \A w \in ns \ {n} : w.at = "waiting"
  OBVIOUS
<1>7. k.pc # "down" /\ ~ (s <=> isMaster) => \E w \in ns \ {n} : w.master <=> isMaster
  OBVIOUS
<1> QED
  BY <1>1, <1>2, <1>3, <1>4, <1>5, <1>6, <1>7

\* A callback that goes on leaves the others where they are.
LEMMA MoveInOrder ==
    ASSUME NEW m \in Mains, NEW isMaster \in BOOLEAN, NEW ns \in SUBSET Notices,
           NEW r \in BOOLEAN, NEW n \in ns, NEW k \in Notices,
           InOrder(m, isMaster, ns, r),
           k.by = n.by, k.master = n.master, k.at # "waiting",
           \A w \in ns : w.at # "waiting" => w = n,
           k.master <=> isMaster,
           k.at = "checked" => k.master
    PROVE  InOrder(m, isMaster, (ns \ {n}) \union {k}, r)
<1> USE DEF InOrder
<1> DEFINE ms == (ns \ {n}) \union {k}
<1>1. /\ m.stopping => ~ m.elected
      /\ m.pc = "idle" => ~ m.stopping
      /\ m.pc = "down" => ~ r
  OBVIOUS
<1>2. \A w \in ms : w.by = "timer" => ~ w.master
  OBVIOUS
<1>3. \A w \in ms : w.by = "main" => m.pc = "notify" /\ (w.master <=> m.elected)
  OBVIOUS
<1>4. \A w, v \in ms : w.by = "main" /\ v.by = "main" => w = v
  OBVIOUS
<1>5. \A w, v \in ms : w.at # "waiting" /\ v.at # "waiting" => w = v
  OBVIOUS
<1>6. \A w \in ms : w.at # "waiting" => w = k
  OBVIOUS
<1>7. m.pc # "down" /\ ~ (r <=> isMaster) => \E w \in ms : w.master <=> isMaster
  OBVIOUS
<1> HIDE DEF ms
<1> QED
  BY <1>1, <1>2, <1>3, <1>4, <1>5, <1>6, <1>7

LEMMA NoticeStepInOrder ==
    ASSUME ElectionTypeInv, NoticeInv, NEW a \in Homes, NoticeStep(a)
    PROVE  NoticeInv'
<1> DEFINE m == main[a]
           ns == notices[a]
           r == refreshing[a]
           mine == belief[a].isMaster
<1>0. /\ main \in [Homes -> Mains] /\ belief \in [Homes -> Beliefs]
      /\ notices \in [Homes -> SUBSET Notices] /\ refreshing \in [Homes -> BOOLEAN]
  BY DEF ElectionTypeInv, TypeOK
<1>1. PICK n \in ns :
        \/ NotifyMasterChanged(a, n)
        \/ CheckCanAutoRefresh(a, n)
        \/ StartAutoRefresh(a, n)
        \/ StopAutoRefresh(a, n)
  BY DEF NoticeStep
<1>2. /\ m \in Mains /\ ns \in SUBSET Notices /\ n \in Notices
      /\ n.master \in BOOLEAN /\ mine \in BOOLEAN /\ r \in BOOLEAN
  BY <1>0 DEF Notices, Beliefs
<1>3. InOrder(m, mine, ns, r)
  BY DEF NoticeInv
<1>4. belief' = belief
  BY <1>1 DEF NotifyMasterChanged, CheckCanAutoRefresh, StartAutoRefresh, StopAutoRefresh
<1>5. \A b \in Homes \ {a} : refreshing'[b] = refreshing[b]
  BY <1>0, <1>1 DEF NotifyMasterChanged, CheckCanAutoRefresh, StartAutoRefresh, StopAutoRefresh
<1>6. refreshing'[a] \in BOOLEAN
  BY <1>0, <1>1 DEF NotifyMasterChanged, CheckCanAutoRefresh, StartAutoRefresh, StopAutoRefresh
<1>7. ASSUME Returns(a, n),
             main'[a].pc = "down" => ~ refreshing'[a],
             main'[a].pc # "down" /\ ~ (refreshing'[a] <=> mine) => \E w \in ns : w # n /\ (w.master <=> mine),
             n.at = "waiting" => ~ (n.master <=> mine) /\ \A w \in ns : w.at = "waiting"
      PROVE  NoticeInv'
  <2> DEFINE k == main'[a]
             s == refreshing'[a]
  <2>1. /\ main' \in [Homes -> Mains]
        /\ notices' = [notices EXCEPT ![a] = @ \ {n}]
        /\ main'[a].elected = m.elected /\ main'[a].stopping = m.stopping
        /\ \A b \in Homes \ {a} : main'[b] = main[b]
        /\ main'[a].pc # m.pc => n.by = "main" /\ m.pc = "notify"
        /\ n.by = "main" /\ m.pc = "notify" => main'[a].pc = IF m.stopping THEN "down" ELSE "idle"
    BY <1>7, ReturnedLoop
  <2>2. k \in Mains /\ s \in BOOLEAN
    BY <1>6, <2>1
  <2>3. notices'[a] = ns \ {n} /\ \A b \in Homes \ {a} : notices'[b] = notices[b]
    BY <1>0, <2>1
  <2>4. /\ k.elected = m.elected /\ k.stopping = m.stopping
        /\ k.pc # m.pc => n.by = "main" /\ m.pc = "notify"
        /\ n.by = "main" /\ m.pc = "notify" => k.pc = IF m.stopping THEN "down" ELSE "idle"
        /\ k.pc = "down" => ~ s
        /\ k.pc # "down" /\ ~ (s <=> mine) => \E w \in ns : w # n /\ (w.master <=> mine)
        /\ n.at = "waiting" => ~ (n.master <=> mine) /\ \A w \in ns : w.at = "waiting"
    BY <1>7, <2>1
  <2>5. InOrder(k, mine, ns \ {n}, s)
    <3> HIDE DEF k, s, m, mine, ns, r
    <3> QED
      BY <1>1, <1>2, <1>3, <2>2, <2>4, ReturnInOrder
  <2> QED
    BY <1>4, <1>5, <2>1, <2>3, <2>5, OneProcessInOrder
<1>8. ASSUME NEW at \in {"called", "checked"}, UNCHANGED <<main, refreshing>>,
             notices' = [notices EXCEPT ![a] = (@ \ {n}) \union {[n EXCEPT !.at = at]}],
             \A w \in ns : w.at # "waiting" => w = n,
             n.master <=> mine,
             at = "checked" => n.master
      PROVE  NoticeInv'
  <2> DEFINE k == [n EXCEPT !.at = at]
  <2>1. k \in Notices /\ k.by = n.by /\ k.master = n.master /\ k.at = at
    BY <1>2, NoticeChanged
  <2>2. notices'[a] = (ns \ {n}) \union {k} /\ \A b \in Homes \ {a} : notices'[b] = notices[b]
    BY <1>0, <1>8
  <2>3. InOrder(m, mine, (ns \ {n}) \union {k}, r)
    <3> HIDE DEF k, m, mine, ns, r
    <3> QED
      BY <1>1, <1>2, <1>3, <1>8, <2>1, MoveInOrder
  <2> QED
    BY <1>4, <1>8, <2>2, <2>3, OneProcessInOrder
<1>9. CASE NotifyMasterChanged(a, n)
  <2>1. n.at = "waiting" /\ \A w \in ns : w.at = "waiting"
    BY <1>9 DEF NotifyMasterChanged, CallbackFree
  <2>2. CASE ~ (n.master <=> mine)
    <3>1. Returns(a, n) /\ refreshing' = [refreshing EXCEPT ![a] = @ /\ main'[a].pc # "down"]
      BY <1>2, <1>9, <2>2 DEF NotifyMasterChanged
    <3>2. refreshing'[a] <=> r /\ main'[a].pc # "down"
      BY <1>0, <3>1
    <3>3. main'[a].pc # m.pc => m.pc = "notify"
      BY <3>1, ReturnedLoop
    <3>4. main'[a].pc # "down" => m.pc # "down"
      BY <3>3
    <3>5. ASSUME main'[a].pc # "down", ~ (refreshing'[a] <=> mine)
          PROVE  \E w \in ns : w # n /\ (w.master <=> mine)
      <4>1. \E w \in ns : w.master <=> mine
        BY <1>3, <3>2, <3>4, <3>5 DEF InOrder
      <4> QED
        BY <2>2, <4>1
    <3> QED
      BY <1>7, <2>1, <2>2, <3>1, <3>2, <3>5
  <2>3. CASE n.master <=> mine
    <3>1. /\ UNCHANGED <<main, refreshing>>
          /\ notices' = [notices EXCEPT ![a] = (@ \ {n}) \union {[n EXCEPT !.at = "called"]}]
      BY <1>2, <1>9, <2>3 DEF NotifyMasterChanged
    <3> QED
      BY <1>8, <2>1, <2>3, <3>1
  <2> QED
    BY <2>2, <2>3
<1>10. \A w \in ns : n.at # "waiting" /\ w.at # "waiting" => w = n
  BY <1>3 DEF InOrder
<1>11. n.by = "main" /\ n.master => ~ m.stopping
  BY <1>3 DEF InOrder
<1>12. CASE CheckCanAutoRefresh(a, n)
  <2>1. n.at = "called" /\ n.master /\ refreshing' = refreshing
    BY <1>12 DEF CheckCanAutoRefresh
  <2>2. CASE mine
    <3>1. /\ UNCHANGED main
          /\ notices' = [notices EXCEPT ![a] = (@ \ {n}) \union {[n EXCEPT !.at = "checked"]}]
      BY <1>12, <2>2 DEF CheckCanAutoRefresh
    <3> QED
      BY <1>8, <1>10, <2>1, <2>2, <3>1
  <2>3. CASE ~ mine
    <3>1. Returns(a, n)
      BY <1>12, <2>3 DEF CheckCanAutoRefresh
    <3>2. /\ main'[a].pc # m.pc => n.by = "main" /\ m.pc = "notify"
          /\ n.by = "main" /\ m.pc = "notify" => main'[a].pc = IF m.stopping THEN "down" ELSE "idle"
      BY <3>1, ReturnedLoop
    <3>3. main'[a].pc = "down" => m.pc = "down"
      BY <1>11, <2>1, <3>2
    <3>4. main'[a].pc = "down" => ~ refreshing'[a]
      BY <1>3, <2>1, <3>3 DEF InOrder
    <3>5. ASSUME main'[a].pc # "down", ~ (refreshing'[a] <=> mine)
          PROVE  \E w \in ns : w # n /\ (w.master <=> mine)
      <4>1. m.pc # "down"
        BY <3>2, <3>5
      <4>2. \E w \in ns : w.master <=> mine
        BY <1>3, <2>1, <3>5, <4>1 DEF InOrder
      <4> QED
        BY <2>1, <2>3, <4>2
    <3> QED
      BY <1>7, <2>1, <3>1, <3>4, <3>5
  <2> QED
    BY <2>2, <2>3
<1>13. CASE StartAutoRefresh(a, n)
  <2>1. n.at = "checked" /\ refreshing' = [refreshing EXCEPT ![a] = TRUE] /\ Returns(a, n)
    BY <1>13 DEF StartAutoRefresh
  <2>2. refreshing'[a]
    BY <1>0, <2>1
  <2>3. n.master /\ (mine \/ \E w \in ns : ~ w.master)
    BY <1>3, <2>1 DEF InOrder
  <2>4. /\ main'[a].pc # m.pc => n.by = "main" /\ m.pc = "notify"
        /\ n.by = "main" /\ m.pc = "notify" => main'[a].pc = IF m.stopping THEN "down" ELSE "idle"
    BY <2>1, ReturnedLoop
  <2>5. n.by = "main" /\ m.pc = "notify"
    BY <1>2, <1>3, <2>3 DEF InOrder, Notices
  <2>6. main'[a].pc # "down"
    BY <1>11, <2>3, <2>4, <2>5
  <2>7. ~ mine => \E w \in ns : w # n /\ (w.master <=> mine)
    BY <2>3
  <2> QED
    BY <1>7, <2>1, <2>2, <2>6, <2>7
<1>14. CASE StopAutoRefresh(a, n)
  <2>1. n.at = "called" /\ ~ n.master /\ refreshing' = [refreshing EXCEPT ![a] = FALSE] /\ Returns(a, n)
    BY <1>14 DEF StopAutoRefresh
  <2>2. ~ refreshing'[a]
    BY <1>0, <2>1
  <2>3. ~ mine \/ \E w \in ns : w.master
    BY <1>3, <2>1 DEF InOrder
  <2>4. mine => \E w \in ns : w # n /\ (w.master <=> mine)
    BY <2>1, <2>3
  <2> QED
    BY <1>7, <2>1, <2>2, <2>4
<1> QED
  BY <1>1, <1>9, <1>12, <1>13, <1>14

\* setMaster with a change of belief: the loop waits for its own callback.
LEMMA AddInOrder ==
    ASSUME NEW m \in Mains, NEW k \in Mains, NEW old \in BOOLEAN, NEW isMaster \in BOOLEAN,
           NEW ns \in SUBSET Notices, NEW r \in BOOLEAN, NEW s \in BOOLEAN, NEW n \in Notices,
           InOrder(m, old, ns, r),
           n.at = "waiting", n.master <=> isMaster, n.by = "timer" => ~ n.master,
           k.elected = m.elected, k.stopping = m.stopping,
           k.pc # "idle", k.pc = "down" => m.pc = "down" /\ ~ s,
           n.by = "main" => k.pc = "notify" /\ (isMaster <=> k.elected) /\ \A w \in ns : w.by # "main",
           (\E w \in ns : w.by = "main") => k.pc = m.pc
    PROVE  InOrder(k, isMaster, ns \union {n}, s)
<1> USE DEF InOrder
<1> DEFINE ms == ns \union {n}
<1>1. k.stopping => ~ k.elected
  OBVIOUS
<1>2. k.pc = "down" => ~ s
  OBVIOUS
<1>3. \A w \in ms : w.by = "timer" => ~ w.master
  OBVIOUS
<1>4. \A w \in ms : w.by = "main" => k.pc = "notify" /\ (w.master <=> k.elected)
  OBVIOUS
<1>5. /\ \A w, v \in ms : w.by = "main" /\ v.by = "main" => w = v
      /\ \A w, v \in ms : w.at # "waiting" /\ v.at # "waiting" => w = v
  OBVIOUS
<1>6. \A w \in ms : w.at = "checked" => w.master /\ (isMaster \/ \E v \in ms : ~ v.master)
  OBVIOUS
<1>7. \A w \in ms : w.at = "called" /\ ~ w.master => ~ isMaster \/ \E v \in ms : v.master
  OBVIOUS
<1>8. \E w \in ms : w.master <=> isMaster
  OBVIOUS
<1> HIDE DEF ms
<1> QED
  BY <1>1, <1>2, <1>3, <1>4, <1>5, <1>6, <1>7, <1>8

LEMMA NoticeInvStep ==
    ASSUME ElectionTypeInv, NoticeInv, [Next]_vars
    PROVE  NoticeInv'
<1>0. /\ main \in [Homes -> Mains] /\ belief \in [Homes -> Beliefs]
      /\ notices \in [Homes -> SUBSET Notices] /\ refreshing \in [Homes -> BOOLEAN]
  BY DEF ElectionTypeInv, TypeOK
<1>1. ASSUME NEW a \in Homes, SetMaster(a) PROVE NoticeInv'
  <2> DEFINE m == main[a]
             ns == notices[a]
             note == [by |-> "main", master |-> m.elected, at |-> "waiting"]
  <2>1. /\ m.pc = "apply" /\ m \in Mains /\ ns \in SUBSET Notices /\ m.elected \in BOOLEAN
        /\ refreshing[a] \in BOOLEAN /\ belief[a].isMaster \in BOOLEAN
    BY <1>0, <1>1 DEF SetMaster, Mains, Beliefs
  <2>2. /\ main' \in [Homes -> Mains]
        /\ \A b \in Homes \ {a} : main'[b] = main[b] /\ belief'[b] = belief[b]
        /\ main'[a].elected = m.elected /\ main'[a].stopping = m.stopping
        /\ belief'[a].isMaster = m.elected
        /\ \/ main'[a].pc = "notify" /\ notices' = [notices EXCEPT ![a] = @ \union {note}]
           \/ /\ notices' = notices /\ belief[a].isMaster = m.elected
              /\ main'[a].pc = IF m.stopping THEN "down" ELSE "idle"
    BY <1>1, SetMasterOutcome
  <2>3. refreshing' = [refreshing EXCEPT ![a] = @ /\ main'[a].pc # "down"]
    BY <1>1 DEF SetMaster
  <2>4. /\ refreshing'[a] <=> refreshing[a] /\ main'[a].pc # "down"
        /\ \A b \in Homes \ {a} : refreshing'[b] = refreshing[b]
        /\ refreshing'[a] \in BOOLEAN
    BY <1>0, <2>3
  <2>5. InOrder(m, belief[a].isMaster, ns, refreshing[a])
    BY DEF NoticeInv
  <2>6. \A w \in ns : w.by # "main"
    BY <2>1, <2>5 DEF InOrder
  <2>7. CASE main'[a].pc = "notify" /\ notices' = [notices EXCEPT ![a] = @ \union {note}]
    <3>1. notices'[a] = ns \union {note} /\ \A b \in Homes \ {a} : notices'[b] = notices[b]
      BY <1>0, <2>7
    <3>2. note \in Notices /\ note.at = "waiting" /\ note.by = "main" /\ note.master = m.elected
      BY <2>1, NewNotice
    <3>3. main'[a] \in Mains
      BY <2>2
    <3>4. InOrder(main'[a], m.elected, ns \union {note}, refreshing'[a])
      <4> HIDE DEF m, ns, note
      <4> QED
        BY <2>1, <2>2, <2>4, <2>5, <2>6, <2>7, <3>2, <3>3, AddInOrder
    <3> QED
      BY <2>2, <2>4, <3>1, <3>4, OneProcessInOrder
  <2>8. CASE /\ notices' = notices /\ belief[a].isMaster = m.elected
             /\ main'[a].pc = IF m.stopping THEN "down" ELSE "idle"
    <3>1. InOrder(main'[a], m.elected, ns, refreshing'[a])
      <4> HIDE DEF m, ns
      <4> QED
        BY <2>1, <2>2, <2>4, <2>5, <2>6, <2>8 DEF InOrder
    <3> QED
      BY <2>2, <2>4, <2>8, <3>1, OneProcessInOrder
  <2> QED
    BY <2>2, <2>7, <2>8
<1>2. ASSUME NEW a \in Homes, NEW lease \in {"current", "older"}, ExpireMasterLease(a, lease)
      PROVE  NoticeInv'
  <2> DEFINE d == [belief[a] EXCEPT !.isMaster = FALSE]
             note == [by |-> "timer", master |-> FALSE, at |-> "waiting"]
             m == main[a]
             ns == notices[a]
  <2>1. d.isMaster = FALSE
    BY <1>0 DEF Beliefs
  <2>2. UNCHANGED <<main, refreshing>>
    BY <1>2 DEF ExpireMasterLease
  <2>3. CASE lease = "current" /\ belief[a].isMaster
    <3>1. belief' = [belief EXCEPT ![a].isMaster = FALSE] /\ notices' = [notices EXCEPT ![a] = @ \union {note}]
      BY <1>2, <2>3 DEF ExpireMasterLease
    <3>2. belief'[a].isMaster = FALSE /\ \A b \in Homes \ {a} : belief'[b] = belief[b]
      BY <1>0, <2>1, <3>1
    <3>3. notices'[a] = ns \union {note} /\ \A b \in Homes \ {a} : notices'[b] = notices[b]
      BY <1>0, <3>1
    <3>4. note \in Notices /\ note.at = "waiting" /\ note.by = "timer" /\ note.master = FALSE
      BY NewNotice
    <3>5. InOrder(m, TRUE, ns, refreshing[a]) /\ m \in Mains /\ ns \in SUBSET Notices /\ refreshing[a] \in BOOLEAN
      BY <1>0, <2>3 DEF NoticeInv, Beliefs
    <3>6. InOrder(m, FALSE, ns \union {note}, refreshing[a])
      <4> HIDE DEF m, ns, note
      <4> QED
        BY <3>4, <3>5 DEF InOrder
    <3> QED
      BY <2>2, <3>2, <3>3, <3>6, OneProcessInOrder
  <2>4. CASE ~ (lease = "current" /\ belief[a].isMaster)
    BY <1>2, <2>2, <2>4 DEF ExpireMasterLease, NoticeInv
  <2> QED
    BY <2>3, <2>4
<1>3. ASSUME NEW a \in Homes, HeartbeatAndElect(a) PROVE NoticeInv'
  <2>1. /\ main' \in [Homes -> Mains] /\ main'[a].pc = "apply" /\ main'[a].stopping = main[a].stopping
        /\ \A b \in Homes \ {a} : main'[b] = main[b]
    BY <1>3, HeartbeatLoop
  <2>2. main[a].pc = "idle" /\ UNCHANGED <<belief, notices, refreshing>>
    BY <1>3 DEF HeartbeatAndElect
  <2>3. InOrder(main[a], belief[a].isMaster, notices[a], refreshing[a])
    BY DEF NoticeInv
  <2>4. \A n \in notices[a] : n.by # "main"
    BY <2>2, <2>3 DEF InOrder
  <2>5. InOrder(main'[a], belief[a].isMaster, notices[a], refreshing[a])
    BY <2>1, <2>2, <2>3, <2>4 DEF InOrder
  <2> QED
    BY <2>1, <2>2, <2>5, OneProcessInOrder
<1>4. ASSUME NEW a \in Homes, StopLoop(a) PROVE NoticeInv'
  <2> DEFINE m == [main[a] EXCEPT !.pc = "apply", !.elected = FALSE, !.stopping = TRUE]
  <2>1. m.pc = "apply" /\ m.elected = FALSE /\ m.stopping = TRUE
    BY <1>0 DEF Mains
  <2>2. /\ main' = [main EXCEPT ![a] = m] /\ main[a].pc = "idle"
        /\ UNCHANGED <<belief, notices, refreshing>>
    BY <1>0, <1>4 DEF StopLoop
  <2> HIDE DEF m
  <2>3. main'[a] = m /\ \A b \in Homes \ {a} : main'[b] = main[b]
    BY <1>0, <2>2
  <2>4. InOrder(main[a], belief[a].isMaster, notices[a], refreshing[a])
    BY DEF NoticeInv
  <2>5. \A n \in notices[a] : n.by # "main"
    BY <2>2, <2>4 DEF InOrder
  <2>6. InOrder(m, belief[a].isMaster, notices[a], refreshing[a])
    BY <2>1, <2>2, <2>4, <2>5 DEF InOrder
  <2> QED
    BY <2>2, <2>3, <2>6, OneProcessInOrder
<1>5. ASSUME NEW a \in Homes, NEW started \in 1 .. MaxStarts, Initialize(a, started) PROVE NoticeInv'
  <2> DEFINE m == [pc |-> "idle", started |-> started, elected |-> FALSE, stopping |-> FALSE]
  <2>1. m.pc = "idle" /\ m.elected = FALSE /\ m.stopping = FALSE
    OBVIOUS
  <2>2. /\ main' = [main EXCEPT ![a] = m] /\ main[a].pc = "down"
        /\ belief' = [belief EXCEPT ![a] = NoBelief]
        /\ UNCHANGED <<notices, refreshing>>
    BY <1>5 DEF Initialize
  <2> HIDE DEF m
  <2>3. main'[a] = m /\ \A b \in Homes \ {a} : main'[b] = main[b] /\ belief'[b] = belief[b]
    BY <1>0, <2>2
  <2>4. belief'[a].isMaster = FALSE
    BY <1>0, <2>2, BeliefReplaced, TRUE \in BOOLEAN
  <2>5. InOrder(main[a], belief[a].isMaster, notices[a], refreshing[a])
    BY DEF NoticeInv
  <2>6. /\ ~ refreshing[a]
        /\ \A n \in notices[a] : n.by # "main" /\ ~ n.master
    BY <1>0, <2>2, <2>5 DEF InOrder, Notices
  <2>7. InOrder(m, FALSE, notices[a], refreshing[a])
    BY <2>1, <2>2, <2>5, <2>6 DEF InOrder
  <2> QED
    BY <2>2, <2>3, <2>4, <2>7, OneProcessInOrder
<1>6. ASSUME NEW a \in Homes, Crash(a) PROVE NoticeInv'
  <2> DEFINE m == [main[a] EXCEPT !.pc = "down"]
  <2>1. m.pc = "down" /\ m.elected = main[a].elected /\ m.stopping = main[a].stopping
    BY <1>0 DEF Mains
  <2>2. /\ main' = [main EXCEPT ![a] = m]
        /\ belief' = [belief EXCEPT ![a] = NoBelief]
        /\ notices' = [notices EXCEPT ![a] = {}] /\ refreshing' = [refreshing EXCEPT ![a] = FALSE]
    BY <1>0, <1>6 DEF Crash
  <2> HIDE DEF m
  <2>3. /\ main'[a] = m /\ notices'[a] = {} /\ refreshing'[a] = FALSE
        /\ \A b \in Homes \ {a} : /\ main'[b] = main[b] /\ belief'[b] = belief[b]
                                  /\ notices'[b] = notices[b] /\ refreshing'[b] = refreshing[b]
    BY <1>0, <2>2
  <2>4. InOrder(main[a], belief[a].isMaster, notices[a], refreshing[a])
    BY DEF NoticeInv
  <2>5. InOrder(main'[a], belief'[a].isMaster, notices'[a], refreshing'[a])
    BY <2>1, <2>3, <2>4 DEF InOrder
  <2> QED
    BY <2>3, <2>5, OneProcessInOrder
<1>7. ASSUME NEW a \in Homes, TimerFires(a) PROVE NoticeInv'
  <2> DEFINE t == NoTimer
  <2>1. t \in {NoTimer} \union 0 .. Timeout
    OBVIOUS
  <2>2. belief' = [belief EXCEPT ![a].timer = t] /\ UNCHANGED <<main, notices, refreshing>>
    BY <1>7 DEF TimerFires
  <2> HIDE DEF t
  <2>3. [belief[a] EXCEPT !.timer = t].isMaster = belief[a].isMaster
    BY <1>0, <2>1, TimerChanged
  <2>4. belief' = [belief EXCEPT ![a] = [belief[a] EXCEPT !.timer = t]]
    BY <1>0, <2>2
  <2>5. \A b \in Homes : belief'[b].isMaster = belief[b].isMaster
    BY <1>0, <2>3, <2>4
  <2> QED
    BY <2>2, <2>5 DEF NoticeInv
<1>8. ASSUME Tick PROVE NoticeInv'
  <2>1. \A a \in Homes : belief'[a].isMaster = belief[a].isMaster
    BY <1>8, TickTyped
  <2>2. UNCHANGED <<main, notices, refreshing>>
    BY <1>8 DEF Tick
  <2> QED
    BY <2>1, <2>2 DEF NoticeInv
<1>9. ASSUME Stabilise \/ UNCHANGED vars PROVE NoticeInv'
  BY <1>9 DEF Stabilise, vars, NoticeInv
<1> QED
  BY <1>1, <1>2, <1>3, <1>4, <1>5, <1>6, <1>7, <1>8, <1>9, NoticeStepInOrder DEF Next

-------------------------------------------------------------------------------

(***************************************************************************)
(* The gate, the flagged row, the belief of each process and its auto      *)
(* refresh tell one story: while the lease runs the gate names the current *)
(* master in the incarnation that was elected, every belief has an end in  *)
(* sight, and once no callback is under way the auto refresh runs exactly  *)
(* in a process that believes it is the master.                            *)
(***************************************************************************)
THEOREM ElectionAgrees == Spec => []MastersAgree
<1> DEFINE ElectionInv == ElectionTypeInv /\ GateInv /\ TimerInv /\ NoticeInv
<1>1. Init => ElectionInv
  <2> SUFFICES ASSUME Init PROVE ElectionInv
    OBVIOUS
  <2>1. TimerInv
    BY BeliefReplaced, TRUE \in BOOLEAN DEF Init, TimerInv, BeliefExpires
  <2>2. NoticeInv
    <3>1. /\ Down.pc = "down" /\ Down.elected = FALSE /\ Down.stopping = FALSE
          /\ \A a \in Homes : main[a] = Down /\ notices[a] = {} /\ refreshing[a] = FALSE
      BY DEF Down, Init
    <3> HIDE DEF Init
    <3> QED
      BY <3>1 DEF NoticeInv, InOrder
  <2> QED
    BY <2>1, <2>2, InitElectionType, GateInit
<1>2. ElectionInv /\ [Next]_vars => ElectionInv'
  BY ElectionTypeStep, GateStep, TimerStep, NoticeInvStep
<1>3. ElectionInv => MastersAgree
  <2> SUFFICES ASSUME ElectionInv PROVE MastersAgree
    OBVIOUS
  <2>1. RefreshFollowsBelief
    <3> SUFFICES ASSUME NEW a \in Homes, main[a].pc # "down", notices[a] = {}
                 PROVE  refreshing[a] <=> belief[a].isMaster
      BY DEF RefreshFollowsBelief, Up
    <3> QED
      BY DEF NoticeInv, InOrder
  <2> QED
    BY <2>1, LeaseHolder DEF MastersAgree, TimerInv
<1> QED
  BY <1>1, <1>2, <1>3, PTL DEF Spec
===============================================================================
