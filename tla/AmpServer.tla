----------------------------- MODULE AmpServer -----------------------------
(* One AMP server process: its routes, its limiter and its lifecycle task   *)
(* over one store. The handlers are coroutines whose storage calls never    *)
(* suspend, so each handler and each lifecycle pass is one step; the pass   *)
(* is cut short only by an error or by the death of the process.            *)
(* AmpCluster splits the same handlers for several processes over a store.  *)
EXTENDS MemoryCells, RateLimit, FiniteSets

CONSTANTS
    Patches,         \* the PATCH bodies clients send
    PurgeRetention   \* AMP_PURGE_RETENTION

ASSUME PatchesAssumption == Patches \subseteq Patch
ASSUME PurgeAssumption == PurgeRetention \in BOOLEAN

VARIABLES
    now,      \* the wall clock, and the limiter's monotonic one
    store,    \* the collection or table
    minted,   \* ids handed out so far; a ULID is never handed out twice
    seen,     \* _scoring_limiter._seen
    since     \* history: when each id last changed status, was minted or purged

vars == <<now, store, minted, seen, since>>

-----------------------------------------------------------------------------
Present(c) == store[c] # NoCell

\* The status of an id in a store, "none" when the store does not hold it.
StatusIn(s, c) == IF s[c] = NoCell THEN "none" ELSE s[c].status

\* The history after a step that leaves the store as s.
SinceAfter(s) ==
    [c \in CellId |-> IF StatusIn(s, c) = StatusIn(store, c) THEN since[c] ELSE now]

Write(c, cell) ==
    /\ store' = [store EXCEPT ![c] = cell]
    /\ since' = SinceAfter(store')

\* The checks GET, PATCH and DELETE make before anything else: one 403 for a
\* cell that is missing, deleted or not the caller's.
Readable(c, agent) == Present(c) /\ store[c].status # "deleted" /\ MayRead(store[c], agent)

\* Fault: a deleted cell can still be written by its writers.
WritableWhenDeleted(c, agent) == Present(c) /\ MayWrite(store[c], agent)

Writable(c, agent) == Present(c) /\ store[c].status # "deleted" /\ MayWrite(store[c], agent)

-----------------------------------------------------------------------------
(* Routes. A call that is refused and changes nothing is no step.           *)

\* POST /memories. An oversize cell is refused before anything is written.
CreateMemory(agent, c) ==
    \E owner \in Agents, lifetime \in Lifetimes, body \in Bodies, policy \in Policies :
        LET cell == NewCell(agent, owner, lifetime, body, policy, now) IN
        /\ c \notin minted
        /\ ~TooLarge(cell)
        /\ Write(c, cell)
        /\ minted' = minted \cup {c}
        /\ UNCHANGED <<now, seen>>

\* GET /memories/{id}: reading is a write of last_accessed_at.
GetMemory(agent, c) ==
    /\ Readable(c, agent)
    /\ \E digits \in DigitsAfterAccess(store[c].digits) :
          Write(c, Boosted(store[c], now, digits))
    /\ UNCHANGED <<now, minted, seen>>

\* The budget a PATCH spends: only one that carries scoring, and before the
\* write, so a write that is then refused has been counted.
Charged(c, patch) ==
    IF patch.lifetime # Null THEN CheckAndRecord(seen, c, now) ELSE seen

\* PATCH /memories/{id}, in its three outcomes: 429, 409 or 413, and 200.
UpdateMemory(agent, c) ==
    \E patch \in Patches :
        /\ Writable(c, agent)
        /\ seen' = Charged(c, patch)
        /\ IF \/ patch.lifetime # Null /\ ~WithinBudget(seen, c, now)
              \/ UpdateRefused(store[c], patch, now)
           THEN UNCHANGED <<store, since>>
           ELSE Write(c, Updated(store[c], patch, now))
        /\ UNCHANGED <<now, minted>>

\* DELETE /memories/{id}: 409 unless archived; the limiter drops the counters.
DeleteMemory(agent, c) ==
    /\ Writable(c, agent)
    /\ store[c].status = "archived"
    /\ Write(c, MarkedDeleted(store[c], now))
    /\ seen' = Forget(seen, c)
    /\ UNCHANGED <<now, minted>>

-----------------------------------------------------------------------------
(* The lifecycle pass: process_all, then purge_expired. It evaluates a      *)
(* snapshot, which in one process is the store itself.                      *)

\* The cells process_all writes.
Due == {c \in CellId : /\ Present(c)
                       /\ store[c].status \in {"active", "stale"}
                       /\ Evaluated(store[c], now) # store[c].status}

\* The cell process_all writes back: the new status and the stamp.
Processed(c) ==
    Updated(store[c], [EmptyPatch EXCEPT !.status = Evaluated(store[c], now)], now)

\* The due cells whose write storage.update refuses as too large.
Failing == {c \in Due : TooLarge(Processed(c))}

\* The cells purge_expired removes.
Expired == {c \in CellId : /\ Present(c)
                           /\ store[c].status = "deleted"
                           /\ RetentionElapsed(store[c], now)}

Pass(done, purged) ==
    /\ store' = [c \in CellId |-> CASE c \in purged -> NoCell
                                    [] c \in done -> Processed(c)
                                    [] OTHER -> store[c]]
    /\ since' = SinceAfter(store')

\* Fault: only active cells are processed, so a stale one is never archived.
RunLifecycleActiveOnly ==
    /\ Pass({c \in Due : store[c].status = "active"}, IF PurgeRetention THEN Expired ELSE {})
    /\ UNCHANGED <<now, minted, seen>>

\* run_lifecycle, from the background task or POST /lifecycle/run. An error
\* ends the pass at the cell that raised it: the cells listed before it are
\* written, the others are not, and nothing is purged. The listing order is
\* the store's, so any set of cells may come before.
RunLifecycle ==
    /\ \/ /\ Failing = {}
          /\ Pass(Due, IF PurgeRetention THEN Expired ELSE {})
       \/ \E done \in SUBSET (Due \ Failing) : Failing # {} /\ Pass(done, {})
    /\ UNCHANGED <<now, minted, seen>>

\* The process dies, in a pass or outside one, and starts again: the store
\* keeps what was written, the limiter starts empty.
Crash ==
    /\ \E done \in SUBSET (Due \ Failing), purged \in SUBSET Expired :
          /\ purged # {} => PurgeRetention /\ Failing = {} /\ done = Due
          /\ Pass(done, purged)
    /\ seen' = NothingSeen
    /\ UNCHANGED <<now, minted>>

Tick ==
    /\ now < MaxTime
    /\ now' = now + 1
    /\ UNCHANGED <<store, minted, seen, since>>

-----------------------------------------------------------------------------
Init ==
    /\ now = 0
    /\ store = [c \in CellId |-> NoCell]
    /\ minted = {}
    /\ seen = NothingSeen
    /\ since = [c \in CellId |-> 0]

Next ==
    \/ \E agent \in Agents, c \in CellId :
          \/ CreateMemory(agent, c)
          \/ GetMemory(agent, c)
          \/ UpdateMemory(agent, c)
          \/ DeleteMemory(agent, c)
    \/ RunLifecycle
    \/ Crash
    \/ Tick

Spec == Init /\ [][Next]_vars

\* The background task sleeps and runs for ever, and time passes.
FairSpec == Spec /\ WF_vars(RunLifecycle) /\ WF_vars(Tick)

-----------------------------------------------------------------------------
(* Properties.                                                              *)

\* Every variable stays in its set.
TypeOK ==
    /\ now \in Time
    /\ store \in [CellId -> Cell \cup {NoCell}]
    /\ minted \subseteq CellId
    /\ seen \in Seen
    /\ since \in [CellId -> Time]

\* The timestamps mean what the rules that read them assume. last_updated_at
\* of a deleted cell is the moment of its DELETE (what deletion_time relies
\* on), that of a stale or archived cell is no earlier than the moment it
\* became so (what the archival age relies on), and an id is in the store
\* only once minted.
StampsTellStatusAge ==
    \A c \in CellId : Present(c) =>
        /\ c \in minted
        /\ since[c] <= now
        /\ store[c].status # "active" =>
              store[c].last_updated_at # Null /\ store[c].last_updated_at >= since[c]
        /\ store[c].status = "deleted" => store[c].last_updated_at = since[c]

\* The engine archives a cell only after it was stale, without interruption,
\* for the whole archival period, however often clients moved it before.
EngineArchivesOnlyLongStale ==
    [][RunLifecycle =>
         \A c \in CellId :
            StatusIn(store', c) = "archived" /\ StatusIn(store, c) # "archived"
            => StatusIn(store, c) = "stale" /\ now - since[c] >= ArchiveStaleDays]_vars

\* The limiter holds counters only for cells a caller can still reach: no
\* refused, failed or late call brings back the counters a DELETE dropped.
CountersOnlyForLiveCells ==
    \A c \in Tracked(seen) : Present(c) /\ store[c].status # "deleted"

\* The abstract life of a cell, read off the store.
PhaseOf(c) == IF Present(c) THEN store[c].status
              ELSE IF c \in minted THEN "purged" ELSE "unborn"

Life == INSTANCE CellLifecycle WITH phase <- [c \in CellId |-> PhaseOf(c)]

\* Every step of the server is a step of CellLifecycle: deleted is terminal,
\* an archived cell never comes back, a DELETE needs an archived cell, and
\* nothing is removed inside its retention window, whatever calls, passes and
\* crashes came before.
ImplementsLifecycle == Life!Spec

\* No cell stays due for a status change for ever: each pass either writes it
\* or a client has changed it.
DueCellsAreServed == \A c \in CellId : []<>(c \notin Due)

\* With purging on, a deleted cell leaves the store (when its window ends
\* within the bounded clock).
DeletedIsPurged ==
    \A c \in CellId :
        StatusIn(store, c) = "deleted" /\ since[c] + RetentionDays <= MaxTime
        ~> ~Present(c)
=============================================================================
