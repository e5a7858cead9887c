----------------------------- MODULE Leadership ------------------------------
(***************************************************************************)
(* What the master gate promises to whoever decides under it: terms only   *)
(* grow, a term has one leader, and a leadership that has lapsed never     *)
(* becomes valid again in the same term.  Coordinator implements it, the   *)
(* rebalancer is built on it.                                              *)
(***************************************************************************)
EXTENDS Naturals

CONSTANTS
    Leaders,    \* the processes that can be elected
    NoLeader    \* the leader before the first election

ASSUME NoLeaderAssumption == NoLeader \notin Leaders

VARIABLES
    term,     \* the gate's term
    leader,   \* the gate's master_key
    valid     \* now is before the gate's lease_until

leadership == <<term, leader, valid>>

LeadershipInit ==
    /\ term = 0
    /\ leader = NoLeader
    /\ valid = FALSE

\* An election that hands over, or that follows a lapse, opens a term.
Elect(l, v) ==
    /\ l # leader \/ ~ valid
    /\ term' = term + 1
    /\ leader' = l
    /\ valid' = v

\* The lease runs out.
Lapse ==
    /\ valid
    /\ valid' = FALSE
    /\ UNCHANGED <<term, leader>>

LeadershipNext == Lapse \/ \E l \in Leaders, v \in BOOLEAN : Elect(l, v)

LeadershipSpec == LeadershipInit /\ [][LeadershipNext]_leadership
==============================================================================
