---------------------------- MODULE MemoryCells ----------------------------
(* The memory cell and the rules every part of the server applies to one:   *)
(* the status graph, the decay test, the archival age, the retention        *)
(* window, the access rules, the size limit and the merge of a PATCH.       *)
(*                                                                          *)
(* Time is counted in whole units (days, when read with the defaults).      *)
(* The decay score importance * confidence * e^(-rate * age) is compared    *)
(* with one threshold only, so `scoring` is represented by the largest age  *)
(* at which the score still reaches it, the cell's lifetime:                *)
(*     score >= 0.3  <=>  age <= lifetime,                                  *)
(* lifetime = ln(importance * confidence / 0.3) / rate rounded down,        *)
(* negative when a fresh cell is already below, and beyond any age when     *)
(* rate = 0.                                                                *)
EXTENDS Integers

CONSTANTS
    Agents,            \* agent ids, owners included
    Null,              \* Python's None, and JSON's absent field
    NoCell,            \* what the store answers for an id it does not hold
    MaxTime,           \* bound on the clock
    Lifetimes,         \* the decay profiles a client may ask for
    Bodies,            \* bytes of the serialized cell outside its status, count and optional stamps
    Policies,          \* the access policies a client may set
    ArchiveStaleDays,  \* ARCHIVE_STALE_DAYS
    RetentionDays,     \* RETENTION_DAYS, or the adapter's longer window
    MaxCellSize,       \* MAX_CELL_SIZE_BYTES
    MaxDigits          \* bound on the digits of access_count

Time == 0..MaxTime
Status == {"active", "stale", "archived", "deleted"}
AccessPolicy == [readable_by: SUBSET Agents, writable_by: SUBSET Agents, public: BOOLEAN]
Optional(S) == S \cup {Null}
Digits == 1..MaxDigits

\* A stored cell. Of access_count it has the number of digits, which the size
\* rule counts; expires_at, provenance and content are bytes of the body: no
\* other rule of the server reads them.
Cell == [created_at       : Time,
         last_accessed_at : Optional(Time),
         last_updated_at  : Optional(Time),
         status           : Status,
         lifetime         : Int,
         digits           : Digits,
         body             : Nat,
         owner_id         : Agents,
         created_by       : Agents,
         policy           : AccessPolicy]

\* A PATCH body: Null stands for a field the client did not send. It carries
\* no created_at and no identity, as the update model does not, and no
\* last_updated_at, which the write stamps over whatever was sent.
Patch == [status           : Optional(Status),
          lifetime         : Optional(Int),
          digits           : Optional(Digits),
          body             : Optional(Nat),
          last_accessed_at : Optional(Time),
          policy           : Optional(AccessPolicy)]

EmptyPatch == [status |-> Null, lifetime |-> Null, digits |-> Null, body |-> Null,
               last_accessed_at |-> Null, policy |-> Null]

ASSUME TimeAssumption ==
    /\ MaxTime \in Nat
    /\ ArchiveStaleDays \in Nat
    /\ RetentionDays \in Nat
ASSUME DataAssumption ==
    /\ Lifetimes \subseteq Int
    /\ Bodies \subseteq Nat
    /\ Policies \subseteq AccessPolicy
    /\ MaxCellSize \in Nat
    /\ MaxDigits \in Nat \ {0}
ASSUME NullAssumption ==
    /\ Null \notin Int
    /\ Null \notin Status
    /\ Null \notin AccessPolicy
ASSUME NoCellAssumption == NoCell \notin Cell

\* Python's `a or b` for an optional field.
Or(value, default) == IF value = Null THEN default ELSE value

-----------------------------------------------------------------------------
(* Lifecycle rules.                                                         *)

\* check_status_transition: what a write may do to a status.
TransitionAllowed(current, new) ==
    \/ new = current
    \/ new # "deleted" /\ current \notin {"deleted", "archived"}

\* The decay clock is read from the last access, not from the last update.
DecayReference(cell) == Or(cell.last_accessed_at, cell.created_at)

ScoreReachesThreshold(cell, t) == t - DecayReference(cell) <= cell.lifetime

\* Fault: the archival age measured from creation.
StaleAgeFromCreation(cell, t) == t - cell.created_at

\* The archival age is measured from the last update of any kind.
StaleAge(cell, t) == t - Or(cell.last_updated_at, cell.created_at)

\* evaluate_cell: the status the engine gives a cell. A re-read stale cell is
\* looked at before the archival age.
Evaluated(cell, t) ==
    CASE cell.status = "stale" /\ ScoreReachesThreshold(cell, t) -> "active"
      [] /\ cell.status = "stale"
         /\ ~ScoreReachesThreshold(cell, t)
         /\ StaleAge(cell, t) >= ArchiveStaleDays -> "archived"
      [] cell.status = "active" /\ ~ScoreReachesThreshold(cell, t) -> "stale"
      [] OTHER -> cell.status

\* Fault: the window counted from creation.
DeletionTimeFromCreation(cell) == cell.created_at

\* When a deleted cell was deleted, and when its retention window ends.
DeletionTime(cell) == Or(cell.last_updated_at, cell.created_at)
RetentionDeadline(cell) == DeletionTime(cell) + RetentionDays

\* Fault: the deadline itself still inside the window.
RetentionElapsedStrictly(cell, t) == t > RetentionDeadline(cell)

\* The window has elapsed at the deadline itself.
RetentionElapsed(cell, t) == t >= RetentionDeadline(cell)

-----------------------------------------------------------------------------
(* Access rules. A pattern list is the set of agents its patterns match.    *)

MayRead(cell, agent) ==
    \/ cell.policy.public
    \/ agent \in {cell.created_by, cell.owner_id}
    \/ agent \in cell.policy.readable_by

MayWrite(cell, agent) ==
    \/ agent \in {cell.created_by, cell.owner_id}
    \/ agent \in cell.policy.writable_by

-----------------------------------------------------------------------------
(* Size. A timestamp that is set takes 29 bytes where null takes 4; a       *)
(* status takes its name, a count its digits. Everything else is the body.  *)

StampBytes(stamp) == IF stamp = Null THEN 4 ELSE 29
StatusBytes(status) ==
    CASE status = "active" -> 6 [] status = "stale" -> 5
      [] status = "archived" -> 8 [] OTHER -> 7
CellSize(cell) == cell.body + cell.digits + StatusBytes(cell.status)
                  + StampBytes(cell.last_accessed_at) + StampBytes(cell.last_updated_at)
TooLarge(cell) == CellSize(cell) > MaxCellSize

-----------------------------------------------------------------------------
(* Storage operations, as functions of the stored cell.                     *)

\* The cell POST /memories builds.
NewCell(agent, owner, lifetime, body, policy, t) ==
    [created_at |-> t, last_accessed_at |-> Null, last_updated_at |-> Null,
     status |-> "active", lifetime |-> lifetime, digits |-> 1, body |-> body,
     owner_id |-> owner, created_by |-> agent, policy |-> policy]

\* The digits the count may have after one more access.
DigitsAfterAccess(digits) == {digits, digits + 1} \cap Digits

\* StorageAdapter.get: the access boost, a stamp and a higher count. Its
\* write is not measured.
Boosted(cell, t, digits) == [cell EXCEPT !.last_accessed_at = t, !.digits = digits]

\* apply_updates: the fields a patch sends over the stored ones.
Merged(cell, patch) ==
    [cell EXCEPT !.status = Or(patch.status, @),
                 !.lifetime = Or(patch.lifetime, @),
                 !.digits = Or(patch.digits, @),
                 !.body = Or(patch.body, @),
                 !.last_accessed_at = Or(patch.last_accessed_at, @),
                 !.policy = Or(patch.policy, @)]

\* Fault: fields the client did not send overwrite stored ones.
UpdatedWithNulls(cell, patch, t) ==
    [Merged(cell, patch) EXCEPT !.status = patch.status, !.lifetime = patch.lifetime,
                                !.last_updated_at = t]

\* Fault: the write is not stamped.
UpdatedUnstamped(cell, patch, t) == Merged(cell, patch)

\* StorageAdapter.update: the merge, then the stamp.
Updated(cell, patch, t) == [Merged(cell, patch) EXCEPT !.last_updated_at = t]

\* What update refuses before it writes: 409 and 413.
UpdateRefused(cell, patch, t) ==
    \/ patch.status # Null /\ ~TransitionAllowed(cell.status, patch.status)
    \/ TooLarge(Updated(cell, patch, t))

\* StorageAdapter.mark_deleted, for an archived cell. Not measured either.
MarkedDeleted(cell, t) == [cell EXCEPT !.status = "deleted", !.last_updated_at = t]
=============================================================================
