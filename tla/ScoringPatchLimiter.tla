------------------------ MODULE ScoringPatchLimiter ------------------------
(* The limiter on its own, at the resolution of its clock: every caller     *)
(* edits, every cell is deleted, time passes. The history keeps what the    *)
(* limiter forgets: each allowed attempt, and what each refused caller was  *)
(* told.                                                                    *)
EXTENDS RateLimit, FiniteSets

CONSTANTS
    MaxClock,    \* bound on the clock, in ticks
    MaxAllowed   \* bound on the attempts allowed in all

ASSUME BoundsAssumption == MaxClock \in Nat /\ MaxAllowed \in Nat

VARIABLES
    clock,     \* time.monotonic, in ticks
    seen,      \* _seen
    spent,     \* history: when each attempt on a cell was allowed, since it was last untracked
    promise,   \* history: when the last refused caller of a cell was told to come back, 0 for none
    allowed    \* attempts allowed so far

vars == <<clock, seen, spent, promise, allowed>>

\* Counters that are gone take their history with them.
KeepTracked(f, none) == [c \in CellId |-> IF c \in Tracked(seen') THEN f[c] ELSE none]

-----------------------------------------------------------------------------
\* A scoring PATCH within its budget. (A limiter that is off keeps no state.)
Allow(c) ==
    /\ Enabled
    /\ WithinBudget(seen, c, clock)
    /\ allowed < MaxAllowed
    /\ seen' = CheckAndRecord(seen, c, clock)
    /\ spent' = KeepTracked([spent EXCEPT ![c] = Append(@, clock)], <<>>)
    /\ promise' = KeepTracked([promise EXCEPT ![c] = 0], 0)
    /\ allowed' = allowed + 1
    /\ UNCHANGED clock

\* A scoring PATCH over its budget: 429 with Retry-After.
Refuse(c) ==
    /\ ~WithinBudget(seen, c, clock)
    /\ seen' = CheckAndRecord(seen, c, clock)
    /\ promise' = [promise EXCEPT ![c] = clock + RetryAfter(seen, c, clock) * TicksPerSecond]
    /\ UNCHANGED <<clock, spent, allowed>>

\* forget, called once a cell is deleted.
Drop(c) ==
    /\ c \in Tracked(seen)
    /\ seen' = Forget(seen, c)
    /\ spent' = KeepTracked(spent, <<>>)
    /\ promise' = KeepTracked(promise, 0)
    /\ UNCHANGED <<clock, allowed>>

Tick ==
    /\ clock < MaxClock
    /\ clock' = clock + 1
    /\ UNCHANGED <<seen, spent, promise, allowed>>

Init ==
    /\ clock = 0
    /\ seen = NothingSeen
    /\ spent = [c \in CellId |-> <<>>]
    /\ promise = [c \in CellId |-> 0]
    /\ allowed = 0

Next ==
    \/ \E c \in CellId : Allow(c) \/ Refuse(c) \/ Drop(c)
    \/ Tick

Spec == Init /\ [][Next]_vars

-----------------------------------------------------------------------------
\* The table is an ordered dictionary of non-empty deques, never above its
\* cap: no key twice, no key whose deque is empty (Retry-After reads its first
\* stamp), no deque without its key.
TableConsistent ==
    /\ seen \in Seen
    /\ Len(seen.order) <= MaxTracked
    /\ \A i, j \in DOMAIN seen.order : seen.order[i] = seen.order[j] => i = j
    /\ \A c \in CellId : (c \in Tracked(seen)) <=> (seen.stamps[c] # <<>>)

\* While a cell is tracked, no window of WindowSeconds holds more than
\* MaxPatches allowed attempts on it, wherever the window starts.
NoWindowOverspent ==
    \A c \in CellId : \A i \in DOMAIN spent[c] :
        i + MaxPatches \in DOMAIN spent[c]
        => spent[c][i + MaxPatches] - spent[c][i] >= Window

\* An attempt is refused only when the window behind it really holds
\* MaxPatches allowed ones: pruning, eviction and forgetting only ever make
\* the limit more permissive.
NeverTooStrict ==
    [][\A c \in CellId :
         Refuse(c) => Cardinality({i \in DOMAIN spent[c] : clock - spent[c][i] < Window})
                          >= MaxPatches]_vars

\* Retry-After is right: a caller who comes back when told finds budget,
\* unless an edit was allowed in between, and one who comes back a whole
\* second early does not.
RetryAfterIsExact ==
    \A c \in CellId : promise[c] # 0 =>
        /\ clock >= promise[c] => WithinBudget(seen, c, clock)
        /\ clock + TicksPerSecond <= promise[c] => ~WithinBudget(seen, c, clock)
=============================================================================
