---------------------------- MODULE MCAmpServer ----------------------------
(* AmpServer for TLC: the inputs clients choose from.                       *)
EXTENDS AmpServer, TLC

\* Owner-only, and readable and writable by everybody.
MCPolicies == {[readable_by |-> {}, writable_by |-> {}, public |-> FALSE]}
MCTwoPolicies == MCPolicies \cup {[readable_by |-> {}, writable_by |-> Agents, public |-> TRUE]}

\* A lifetime no age of the bounded clock exceeds: decay_rate = 0.
Forever == MaxTime
MCLifetimes == {0, Forever}

SetStatus == {[EmptyPatch EXCEPT !.status = s] : s \in Status}
Archive == {[EmptyPatch EXCEPT !.status = "archived"]}
\* A PATCH of scoring resets access_count unless it sends one.
SetScoring == {[EmptyPatch EXCEPT !.lifetime = l, !.digits = 1] : l \in Lifetimes}
SetBoth == {[p EXCEPT !.status = "active"] : p \in SetScoring}
SetPolicy == {[EmptyPatch EXCEPT !.policy = p] : p \in Policies}

MCPatches == SetStatus \cup SetScoring \cup SetBoth \cup SetPolicy

MCSymmetry == Permutations(CellId) \cup Permutations(Agents)
=============================================================================
