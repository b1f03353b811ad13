----------------------------- MODULE RateLimit -----------------------------
(* ScoringPatchLimiter as functions of its state: the ordered dictionary of *)
(* deques `_seen`, held as the order of its keys (least recently touched    *)
(* first) and the deque of each key, empty for an id that is not a key.     *)
(* The clock counts TicksPerSecond ticks to the second.                     *)
EXTENDS Integers, Sequences

CONSTANTS
    CellId,          \* the ids (mem_<ULID>) a limiter may be asked about
    MaxPatches,      \* limit.max_patches
    WindowSeconds,   \* limit.window_seconds
    MaxTracked,      \* max_tracked_cells
    TicksPerSecond

ASSUME LimitAssumption ==
    /\ MaxPatches \in Nat
    /\ WindowSeconds \in Nat
    /\ MaxTracked \in Nat \ {0}
    /\ TicksPerSecond \in Nat \ {0}

Seen == [order: Seq(CellId), stamps: [CellId -> Seq(Nat)]]
NothingSeen == [order |-> <<>>, stamps |-> [c \in CellId |-> <<>>]]

Enabled == MaxPatches > 0 /\ WindowSeconds > 0
Window == WindowSeconds * TicksPerSecond
Tracked(seen) == {seen.order[i] : i \in DOMAIN seen.order}

\* Fault: a fixed window, the whole deque dropped with its first stamp.
PruneWhole(stamps, t) ==
    IF stamps # <<>> /\ t - stamps[1] >= Window THEN <<>> ELSE stamps

\* _prune: drop stamps from the left while they are a window old or older.
Prune(stamps, t) ==
    LET expired == CHOOSE k \in 0..Len(stamps) :
                      /\ \A i \in 1..k : t - stamps[i] >= Window
                      /\ k < Len(stamps) => t - stamps[k + 1] < Window
    IN SubSeq(stamps, expired + 1, Len(stamps))

\* The keys without c, in their order.
Without(order, c) ==
    IF \E i \in DOMAIN order : order[i] = c
    THEN LET i == CHOOSE j \in DOMAIN order : order[j] = c
         IN SubSeq(order, 1, i - 1) \o SubSeq(order, i + 1, Len(order))
    ELSE order

\* Fault: one key above the cap is kept.
EvictedLate(seen) ==
    IF Len(seen.order) <= MaxTracked + 1 THEN seen
    ELSE [seen EXCEPT !.order = Tail(@), !.stamps[Head(seen.order)] = <<>>]

\* _evict_if_crowded: forget the least recently touched keys above the cap.
Evicted(seen) ==
    IF Len(seen.order) <= MaxTracked THEN seen
    ELSE LET kept == SubSeq(seen.order, Len(seen.order) - MaxTracked + 1, Len(seen.order))
         IN [order |-> kept,
             stamps |-> [c \in CellId |->
                           IF \E i \in DOMAIN kept : kept[i] = c THEN seen.stamps[c] ELSE <<>>]]

\* Is the attempt on c at t within its budget?
WithinBudget(seen, c, t) == ~Enabled \/ Len(Prune(seen.stamps[c], t)) < MaxPatches

\* Fault: refused attempts are counted too.
CheckAndRecordAll(seen, c, t) ==
    Evicted([order |-> Append(Without(seen.order, c), c),
             stamps |-> [seen.stamps EXCEPT ![c] = Append(Prune(@, t), t)]])

\* check_and_record: the state it leaves, allowed or not. A refused attempt
\* moves the key to the end and prunes it, and is not counted.
CheckAndRecord(seen, c, t) ==
    LET touched == [order |-> Append(Without(seen.order, c), c),
                    stamps |-> [seen.stamps EXCEPT ![c] = Prune(@, t)]]
    IN CASE ~Enabled -> seen
         [] Enabled /\ WithinBudget(seen, c, t) ->
              Evicted([touched EXCEPT !.stamps[c] = Append(@, t)])
         [] OTHER -> touched

\* Fault: the wait counted from the newest stamp.
RetryAfterNewest(seen, c, t) ==
    LET live == Prune(seen.stamps[c], t)
        left == Window - (t - live[Len(live)])
    IN (left + TicksPerSecond - 1) \div TicksPerSecond

\* check_and_record: the seconds a refused caller is told to wait.
RetryAfter(seen, c, t) ==
    LET left == Window - (t - Prune(seen.stamps[c], t)[1])
        seconds == (left + TicksPerSecond - 1) \div TicksPerSecond
    IN IF seconds < 1 THEN 1 ELSE seconds

Forget(seen, c) == [order |-> Without(seen.order, c),
                    stamps |-> [seen.stamps EXCEPT ![c] = <<>>]]
=============================================================================
