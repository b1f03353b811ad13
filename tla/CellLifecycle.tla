--------------------------- MODULE CellLifecycle ---------------------------
(* What the server promises about the life of a cell, without the cell:     *)
(* the phase each id is in, and since when. A cell is born active, moves    *)
(* between active and stale, is archived for good, is deleted only once     *)
(* archived, and leaves the store only RetentionDays after that. A step may *)
(* move any number of cells, as one lifecycle pass does.                    *)
EXTENDS Naturals

CONSTANTS CellId, MaxTime, RetentionDays

VARIABLES now, phase, since

Phase == {"unborn", "active", "stale", "archived", "deleted", "purged"}

Successors == [unborn   |-> {"active"},
               active   |-> {"stale", "archived"},
               stale    |-> {"active", "archived"},
               archived |-> {"deleted"},
               deleted  |-> {"purged"},
               purged   |-> {}]

Init ==
    /\ now = 0
    /\ phase = [c \in CellId |-> "unborn"]
    /\ since = [c \in CellId |-> 0]

\* c moves along the graph, and is purged only after its retention window.
Moves(c) ==
    /\ phase'[c] \in Successors[phase[c]]
    /\ phase'[c] = "purged" => now >= since[c] + RetentionDays
    /\ since'[c] = now

Stays(c) == phase'[c] = phase[c] /\ since'[c] = since[c]

MoveCells ==
    /\ phase' \in [CellId -> Phase]
    /\ since' \in [CellId -> 0..MaxTime]
    /\ \A c \in CellId : Moves(c) \/ Stays(c)
    /\ UNCHANGED now

Tick == now < MaxTime /\ now' = now + 1 /\ UNCHANGED <<phase, since>>

Next == MoveCells \/ Tick

Spec == Init /\ [][Next]_<<now, phase, since>>
=============================================================================
