----------------------------- MODULE MCRebalance -----------------------------
(* Small instances of the rebalancer for TLC. *)
EXTENDS Rebalance, TLC

Symmetry == Permutations(Nodes) \union Permutations(Homes)

At(g, h) == {f \in Nodes : g[f] = h}

\* All CPA nodes on one Home, or evenly spread over two.
Together == {[f \in Nodes |-> h] : h \in Homes}
Apart == {g \in [Nodes -> Homes] : \A h \in Homes : 2 * Cardinality(At(g, h)) = Cardinality(Nodes)}

Settled == Together \union Apart

AllBeating == live = Homes /\ \A f \in Nodes : members[f].fresh

\* One Home is lost or one CPA node falls silent as long as there is one plan and nobody has
\* reconnected; afterwards all heartbeats arrive in time.
OnePlan == Cardinality({p \in PlanIds : plans[p].state # "none"}) <= 1
OneMissing == Cardinality(Homes \ live) + Cardinality({f \in Nodes : ~ members[f].fresh}) = 1
FailuresOfOnePlan == AllBeating \/ (OneMissing /\ OnePlan /\ \A f \in Nodes : members[f].at = 1)

\* In the liveness run at most one CPA node is silent once a second leader is in office.
OneSilentInSecondTerm == term <= 1 \/ Cardinality({f \in Nodes : ~ members[f].fresh}) <= 1

\* The rounds are followed until the first of their moves ends.
FirstRounds == AllBeating /\ \A f \in Nodes : clients[f].wait = 0
==============================================================================
