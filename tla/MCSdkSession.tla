---------------------------- MODULE MCSdkSession ----------------------------
(* SdkSession for TLC: two agents, two keys, and the key files that name     *)
(* them, swap them, or are broken.                                          *)
EXTENDS SdkSession

CONSTANTS me, other, k1, k2

MCAgents == {me, other}
MCKeys == {k1, k2}
MCKeyFiles == {Unset, Malformed, me :> k1 @@ other :> NoKey, me :> k2 @@ other :> k1}

\* Cells of one second, the first of them on the whole second.
MCCreatedAt == [c \in CellId |-> [second |-> 1, fraction |-> 500000 * (c - 1)]]
=============================================================================
