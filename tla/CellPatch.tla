----------------------------- MODULE CellPatch -----------------------------
(* One stored cell with its nested objects, and what the storage adapter    *)
(* does to it: the body of a PATCH is completed by the request models,      *)
(* stripped of its nulls, merged object by object into the stored cell,     *)
(* stamped, measured and written. MemoryCells holds the same cell with the  *)
(* objects reduced to what the other rules read; this module shows that the *)
(* reduction loses nothing those rules see (AsFlatCell).                    *)
(*                                                                          *)
(* A JSON object is a function from the names it holds to their values. A   *)
(* metadata value may be an object itself, a dictionary of plain values:    *)
(* the merge treats a third level as it treats the second. Ratios are in    *)
(* hundredths.                                                              *)
EXTENDS MemoryCells, FiniteSets

CONSTANTS
    Texts, TextBytes,      \* contents, and the bytes each takes in the cell
    MetaKeys, MetaValues,  \* keys of metadata entries, and their plain values
    MetaBytes,             \* the bytes some metadata takes
    Ratios, Rates,         \* what importance and confidence, and decay_rate, may be
    MaxCount,              \* bound on access_count
    DigitsOf,              \* the digits a count is written with
    LifetimeOf,            \* the lifetime of <<importance, confidence, decay_rate>>
    Sources,               \* what the provenance fields may be
    Requests               \* the PATCH bodies, as clients send them

Dictionaries(values) == UNION {[keys -> values] : keys \in SUBSET MetaKeys}
NestedDicts == Dictionaries(MetaValues)
Metadata == Dictionaries(MetaValues \cup NestedDicts)

\* MemoryCell: its objects, and what each of their fields holds.
Values ==
    [content       |-> [text |-> Texts, metadata |-> Metadata],
     identity      |-> [owner_id |-> Agents, created_by |-> Agents],
     lifecycle     |-> [created_at |-> Time, last_accessed_at |-> Optional(Time),
                        last_updated_at |-> Optional(Time),
                        expires_at |-> Optional(Time), status |-> Status],
     scoring       |-> [importance |-> Ratios, confidence |-> Ratios,
                        decay_rate |-> Rates, access_count |-> 0..MaxCount],
     access_policy |-> [readable_by |-> SUBSET Agents, writable_by |-> SUBSET Agents,
                        public |-> BOOLEAN],
     provenance    |-> [source_type |-> Optional(Sources), source_ref |-> Optional(Sources),
                        extraction_method |-> Optional(Sources)]]

Objects == DOMAIN Values
Fields(o) == DOMAIN Values[o]

\* The fields of MemoryCellUpdate that have a default, and that default.
Default ==
    [content       |-> [metadata |-> [k \in {} |-> Null]],
     lifecycle     |-> [last_accessed_at |-> Null, last_updated_at |-> Null,
                        expires_at |-> Null, status |-> Null],
     scoring       |-> [importance |-> 50, confidence |-> 100,
                        decay_rate |-> 1, access_count |-> 0],
     access_policy |-> [readable_by |-> {}, writable_by |-> {}, public |-> FALSE],
     provenance    |-> [source_type |-> Null, source_ref |-> Null,
                        extraction_method |-> Null]]

\* MemoryCellUpdate: the objects a PATCH may name, and their fields. A name
\* the model does not have is ignored, so no body carries one.
Updatable == DOMAIN Default
UpdateFields(o) == DOMAIN Default[o] \cup (IF o = "content" THEN {"text"} ELSE {})

\* The objects whose fields are declared `| None`.
Nullable == {"lifecycle", "provenance"}

\* A body validation accepts: typed values, null only where it is declared,
\* and a content that has its text.
Accepted(body) ==
    /\ DOMAIN body \subseteq Updatable
    /\ \A o \in DOMAIN body :
          /\ DOMAIN body[o] \subseteq UpdateFields(o)
          /\ \A f \in DOMAIN body[o] :
                \/ body[o][f] \in Values[o][f]
                \/ o \in Nullable /\ body[o][f] = Null
    /\ "content" \in DOMAIN body => "text" \in DOMAIN body.content

ASSUME SizeAssumption ==
    /\ TextBytes \in [Texts -> Nat]
    /\ MetaBytes \in [Metadata -> Nat]
    /\ MetaValues \cap NestedDicts = {}
ASSUME CountAssumption ==
    /\ MaxCount \in Nat
    /\ DigitsOf \in [0..MaxCount -> Digits]
    /\ DigitsOf[0] = 1
    /\ \A n \in 0..(MaxCount - 1) : DigitsOf[n + 1] \in DigitsAfterAccess(DigitsOf[n])
ASSUME ScoringAssumption ==
    /\ {50, 100} \subseteq Ratios
    /\ 1 \in Rates
    /\ LifetimeOf \in [Ratios \X Ratios \X Rates -> Int]
ASSUME AbsentAssumption ==
    \A o \in Updatable \ Nullable : \A f \in UpdateFields(o) : \A v \in Values[o][f] : v # Null
ASSUME RequestsAssumption == \A body \in Requests : Accepted(body)

VARIABLES
    now,
    cell

vars == <<now, cell>>

-----------------------------------------------------------------------------
(* The cell as MemoryCells sees it.                                         *)

LifetimeOfScoring(scoring) ==
    LifetimeOf[<<scoring.importance, scoring.confidence, scoring.decay_rate>>]

BodyBytes(c) ==
    TextBytes[c.content.text] + MetaBytes[c.content.metadata]
    + StampBytes(c.lifecycle.expires_at)

Flat(c) ==
    [created_at       |-> c.lifecycle.created_at,
     last_accessed_at |-> c.lifecycle.last_accessed_at,
     last_updated_at  |-> c.lifecycle.last_updated_at,
     status           |-> c.lifecycle.status,
     lifetime         |-> LifetimeOfScoring(c.scoring),
     digits           |-> DigitsOf[c.scoring.access_count],
     body             |-> BodyBytes(c),
     owner_id         |-> c.identity.owner_id,
     created_by       |-> c.identity.created_by,
     policy           |-> c.access_policy]

-----------------------------------------------------------------------------
(* From the body to the written cell.                                       *)

\* An object the client sent, as its model holds it: every field the client
\* left out has the model's default.
Parsed(o, sent) ==
    [f \in UpdateFields(o) |-> IF f \in DOMAIN sent THEN sent[f] ELSE Default[o][f]]

\* exclude_none, for one object.
WithoutNone(object) == [f \in {g \in DOMAIN object : object[g] # Null} |-> object[f]]

\* Fault: nulls are dumped too.
DumpedWithNone(body) == [o \in DOMAIN body |-> Parsed(o, body[o])]

\* model_dump_json(exclude_none=True).
Dumped(body) == [o \in DOMAIN body |-> WithoutNone(Parsed(o, body[o]))]

\* IMMUTABLE_PATHS, with the identity standing for the id and the type too.
ImmutablePaths == {<<"identity">>, <<"lifecycle", "created_at">>}

\* apply_updates on a dictionary of plain values.
MergedDict(target, updates) ==
    [k \in DOMAIN target \cup DOMAIN updates |->
        IF k \in DOMAIN updates THEN updates[k] ELSE target[k]]

\* Fault: only the first level is merged.
MergedMetadataShallow(target, updates) == MergedDict(target, updates)

\* And on metadata: a dictionary is merged into a dictionary, anything else
\* takes the place of what is there.
MergedMetadata(target, updates) ==
    [k \in DOMAIN target \cup DOMAIN updates |->
        CASE k \notin DOMAIN updates -> target[k]
          [] k \in DOMAIN target \cap DOMAIN updates
             /\ target[k] \in NestedDicts /\ updates[k] \in NestedDicts ->
                MergedDict(target[k], updates[k])
          [] OTHER -> updates[k]]

\* apply_updates on one object of the cell.
MergedObject(o, target, updates) ==
    [f \in DOMAIN target |->
        CASE f \notin DOMAIN updates \/ <<o, f>> \in ImmutablePaths -> target[f]
          [] f \in DOMAIN updates /\ <<o, f>> \notin ImmutablePaths /\ f = "metadata" ->
                MergedMetadata(target[f], updates[f])
          [] OTHER -> updates[f]]

ApplyUpdates(target, updates) ==
    [o \in DOMAIN target |->
        IF o \in DOMAIN updates /\ <<o>> \notin ImmutablePaths
        THEN MergedObject(o, target[o], updates[o]) ELSE target[o]]

Stamped(c, t) == [c EXCEPT !.lifecycle.last_updated_at = t]

\* Fault: the stamp is set first, and merged over.
UpdatedCellStampedFirst(c, updates, t) == ApplyUpdates(Stamped(c, t), updates)

\* What StorageAdapter.update would write.
UpdatedCell(c, updates, t) == Stamped(ApplyUpdates(c, updates), t)

RequestedStatus(updates) ==
    IF "lifecycle" \in DOMAIN updates /\ "status" \in DOMAIN updates.lifecycle
    THEN updates.lifecycle.status ELSE Null

\* Fault: the stored cell is measured, not the merged one.
RefusedByStored(c, updates, t) ==
    \/ /\ RequestedStatus(updates) # Null
       /\ ~TransitionAllowed(c.lifecycle.status, RequestedStatus(updates))
    \/ TooLarge(Flat(c))

\* 409 and 413: the status is checked before the merge, the size after it.
Refused(c, updates, t) ==
    \/ /\ RequestedStatus(updates) # Null
       /\ ~TransitionAllowed(c.lifecycle.status, RequestedStatus(updates))
    \/ TooLarge(Flat(UpdatedCell(c, updates, t)))

Update(updates) ==
    /\ ~Refused(cell, updates, now)
    /\ cell' = UpdatedCell(cell, updates, now)
    /\ UNCHANGED now

-----------------------------------------------------------------------------
(* The operations, for callers the access rules let through. No route       *)
(* passes a deleted cell on. A refused call is no step.                     *)

\* The cell POST /memories builds, from a body that names no lifecycle.
Created(body, agent, owner, t) ==
    [o \in Objects |->
        CASE o = "identity" -> [owner_id |-> owner, created_by |-> agent]
          [] o = "lifecycle" -> [created_at |-> t, last_accessed_at |-> Null,
                                 last_updated_at |-> Null, expires_at |-> Null,
                                 status |-> "active"]
          [] o \notin {"identity", "lifecycle"} /\ o \in DOMAIN body -> Parsed(o, body[o])
          [] OTHER -> Default[o]]

\* GET: the access boost, whose write is not measured.
GetMemory ==
    /\ cell.lifecycle.status # "deleted"
    /\ cell.scoring.access_count < MaxCount
    /\ cell' = [cell EXCEPT !.scoring.access_count = @ + 1,
                            !.lifecycle.last_accessed_at = now]
    /\ UNCHANGED now

\* PATCH, with the body the client sent.
UpdateMemory(body) ==
    /\ cell.lifecycle.status # "deleted"
    /\ Update(Dumped(body))

\* One pass of the engine over the cell. Its update names the status alone, and
\* the nulls the model adds are dumped away.
StatusUpdate(status) == [lifecycle |-> [status |-> status]]

RunLifecycle ==
    LET status == Evaluated(Flat(cell), now) IN
    /\ cell.lifecycle.status \in {"active", "stale"}
    /\ status # cell.lifecycle.status
    /\ Update(StatusUpdate(status))

\* DELETE. Its write is not measured either.
DeleteMemory ==
    /\ cell.lifecycle.status = "archived"
    /\ cell' = [cell EXCEPT !.lifecycle.status = "deleted",
                            !.lifecycle.last_updated_at = now]
    /\ UNCHANGED now

Tick ==
    /\ now < MaxTime
    /\ now' = now + 1
    /\ UNCHANGED cell

\* save: an oversize cell is refused.
Init ==
    /\ now = 0
    /\ \E body \in Requests, agent \in Agents, owner \in Agents :
          /\ "content" \in DOMAIN body /\ "lifecycle" \notin DOMAIN body
          /\ cell = Created(body, agent, owner, now)
          /\ ~TooLarge(Flat(cell))

Next ==
    \/ GetMemory
    \/ \E body \in Requests : UpdateMemory(body)
    \/ RunLifecycle
    \/ DeleteMemory
    \/ Tick

Spec == Init /\ [][Next]_vars

-----------------------------------------------------------------------------
(* Properties.                                                              *)

WellFormed(c) ==
    /\ DOMAIN c = Objects
    /\ \A o \in Objects :
          /\ DOMAIN c[o] = Fields(o)
          /\ \A f \in Fields(o) : c[o][f] \in Values[o][f]

\* The cell has every object and field of its model, each with a value of
\* its type: what deserialize_cell validates after the merge.
TypeOK ==
    /\ now \in Time
    /\ WellFormed(cell)

\* The flat patch a body amounts to. An object of scoring or access_policy
\* is replaced whole, because its model completes it.
FlatPatch(body, c) ==
    LET updates == Dumped(body) IN
    [status           |-> RequestedStatus(updates),
     lifetime         |-> IF "scoring" \in DOMAIN body
                          THEN LifetimeOfScoring(Parsed("scoring", body.scoring)) ELSE Null,
     digits           |-> IF "scoring" \in DOMAIN body
                          THEN DigitsOf[Parsed("scoring", body.scoring).access_count] ELSE Null,
     body             |-> BodyBytes(ApplyUpdates(c, updates)),
     last_accessed_at |-> IF "lifecycle" \in DOMAIN body
                          THEN Parsed("lifecycle", body.lifecycle).last_accessed_at ELSE Null,
     policy           |-> IF "access_policy" \in DOMAIN body
                          THEN Parsed("access_policy", body.access_policy) ELSE Null]

\* The patch the engine's update amounts to.
FlatStatus(c) == [EmptyPatch EXCEPT !.status = Evaluated(Flat(c), now)]

\* The reduction of MemoryCells is exact: each operation here is the
\* operation of the same name there, on the flat cell, and an update is
\* refused here exactly when it is refused there. The update time is the
\* server's whatever the body says. The decay profile after a PATCH of scoring
\* depends on that PATCH alone, which the API reference denies: see
\* UnsentScoringIsKept.
AsFlatCell ==
    [][/\ GetMemory => Flat(cell)' = Boosted(Flat(cell), now, Flat(cell)'.digits)
       /\ \A body \in Requests :
             /\ Refused(cell, Dumped(body), now)
                   <=> UpdateRefused(Flat(cell), FlatPatch(body, cell), now)
             /\ UpdateMemory(body) =>
                   Flat(cell)' = Updated(Flat(cell), FlatPatch(body, cell), now)
       /\ Refused(cell, StatusUpdate(Evaluated(Flat(cell), now)), now)
             <=> UpdateRefused(Flat(cell), FlatStatus(cell), now)
       /\ RunLifecycle => Flat(cell)' = Updated(Flat(cell), FlatStatus(cell), now)
       /\ DeleteMemory => Flat(cell)' = MarkedDeleted(Flat(cell), now)]_vars

\* A value of the body that the merge can see.
Sends(body, o, f) == f \in DOMAIN body[o] /\ body[o][f] # Null

\* The value a body names for a metadata key, or for a key of a dictionary
\* in the metadata.
NamesKey(body, k) ==
    /\ "content" \in DOMAIN body /\ "metadata" \in DOMAIN body.content
    /\ k \in DOMAIN body.content.metadata

NamesNestedKey(body, k, l) ==
    /\ NamesKey(body, k)
    /\ body.content.metadata[k] \in NestedDicts => l \in DOMAIN body.content.metadata[k]

\* A PATCH keeps what it does not send: the objects it does not name, the
\* lifecycle and provenance fields it leaves out or sends as null (so none of
\* them can be cleared), the text of a cell whose content it does not name,
\* every metadata key it does not name (so none can be removed), and the keys
\* a dictionary in the metadata had, unless a plain value takes its place. The
\* fields of scoring and of access_policy are not among them: see
\* UnsentScoringIsKept.
KeepsWhatWasNotSent ==
    [][\A body \in Requests :
         UpdateMemory(body) =>
            /\ \A o \in Objects \ {"lifecycle"} : o \notin DOMAIN body => cell'[o] = cell[o]
            /\ \A o \in {"lifecycle", "provenance"} : \A f \in Fields(o) :
                  /\ f # "last_updated_at"
                  /\ o \notin DOMAIN body \/ ~Sends(body, o, f)
                  => cell'[o][f] = cell[o][f]
            /\ \A k \in DOMAIN cell.content.metadata :
                  /\ k \in DOMAIN cell'.content.metadata
                  /\ ~NamesKey(body, k)
                     => cell'.content.metadata[k] = cell.content.metadata[k]
                  /\ cell.content.metadata[k] \in NestedDicts =>
                        \A l \in DOMAIN cell.content.metadata[k] :
                           ~NamesNestedKey(body, k, l) =>
                              /\ cell'.content.metadata[k] \in NestedDicts
                              /\ l \in DOMAIN cell'.content.metadata[k]
                              /\ cell'.content.metadata[k][l]
                                    = cell.content.metadata[k][l]]_vars

\* api-reference.md: "sending `scoring.importance` does not clear
\* `scoring.confidence`", "A field you omit keeps its stored value". A PATCH of
\* scoring keeps the scoring fields it does not send.
UnsentScoringIsKept ==
    [][\A body \in Requests :
         UpdateMemory(body) /\ "scoring" \in DOMAIN body =>
            \A f \in Fields("scoring") \ DOMAIN body.scoring :
               cell'.scoring[f] = cell.scoring[f]]_vars

\* The stored cell passes the advertised maximum only by what reads add to it,
\* the stamp of the last and the digits of their number: without these it
\* fits, whatever was patched, read, aged and deleted before.
WithoutReads(flat) == [flat EXCEPT !.last_accessed_at = Null, !.digits = 1]
OversizeOnlyByReads == CellSize(WithoutReads(Flat(cell))) <= MaxCellSize
=============================================================================
