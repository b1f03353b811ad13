---------------------------- MODULE MCAmpCluster ----------------------------
(* AmpCluster for TLC: the inputs clients choose from.                      *)
EXTENDS AmpCluster, TLC

MCPolicies == {[readable_by |-> {}, writable_by |-> {}, public |-> FALSE]}

Archive == {SetStatusTo("archived")}

\* importance * confidence below the threshold: stale at the first pass.
BelowThreshold == {-1}

\* One cell has been created, archived and deleted on the first day; no other
\* has been created yet.
Gone == CHOOSE c \in CellId : TRUE

DeletedOnDayOne(cell) ==
    /\ now = 0
    /\ store = [c \in CellId |-> IF c = Gone THEN cell ELSE NoCell]
    /\ minted = {Gone}
    /\ calls = [p \in Processes |-> <<>>]
    /\ hand = [p \in Processes |-> Nothing]
    /\ since = [c \in CellId |-> 0]
    /\ crashes = 0

MCInit ==
    \E agent, owner \in Agents, l \in Lifetimes, body \in Bodies, policy \in Policies :
        DeletedOnDayOne(MarkedDeleted(NewCell(agent, owner, l, body, policy, 0), 0))

MCFairSpec ==
    /\ MCInit
    /\ [][Next]_vars
    /\ Fairness

MCSymmetry == Permutations(CellId) \cup Permutations(Servers) \cup Permutations(McpServers)
=============================================================================
