-------------------------- MODULE CellPatchProofs --------------------------
(* Proofs about CellPatch: the stored cell keeps its types through every    *)
(* merge, an operation on it is the operation MemoryCells describes on the  *)
(* flat cell, a PATCH keeps what it does not send, and only reads take the  *)
(* cell past its maximum size.                                              *)
EXTENDS CellPatch, TLAPS

-----------------------------------------------------------------------------
(* Shapes of the model's records.                                           *)

\* The objects of a cell.
LEMMA ObjectNames ==
    /\ Objects = {"content", "identity", "lifecycle", "scoring",
                  "access_policy", "provenance"}
    /\ Updatable = Objects \ {"identity"}
BY DEF Objects, Updatable, Values, Default

\* Their fields.
LEMMA FieldNames ==
    /\ Fields("content") = {"text", "metadata"}
    /\ Fields("identity") = {"owner_id", "created_by"}
    /\ Fields("lifecycle") = {"created_at", "last_accessed_at", "last_updated_at",
                              "expires_at", "status"}
    /\ Fields("scoring") = {"importance", "confidence", "decay_rate", "access_count"}
    /\ Fields("access_policy") = {"readable_by", "writable_by", "public"}
    /\ Fields("provenance") = {"source_type", "source_ref", "extraction_method"}
BY DEF Fields, Values

\* The fields an update may name: all but the created_at of the lifecycle.
LEMMA UpdateFieldNames ==
    /\ UpdateFields("content") = {"text", "metadata"}
    /\ UpdateFields("lifecycle") = {"last_accessed_at", "last_updated_at",
                                    "expires_at", "status"}
    /\ \A o \in {"scoring", "access_policy", "provenance"} : UpdateFields(o) = Fields(o)
BY DEF Fields, Values, UpdateFields, Default

\* An update names only fields of the cell.
LEMMA UpdateFieldsAreFields ==
    \A o \in Updatable : UpdateFields(o) \subseteq Fields(o)
BY ObjectNames, FieldNames, UpdateFieldNames

\* A default is a value of the field, or null where that is declared.
LEMMA DefaultsTyped ==
    \A o \in Updatable : \A f \in DOMAIN Default[o] :
        Default[o][f] \in Values[o][f] \/ (o \in Nullable /\ Default[o][f] = Null)
<1>1. \A f \in DOMAIN Default["content"] : Default["content"][f] \in Values["content"][f]
  <2>1. [k \in {} |-> Null] \in [{} -> MetaValues \cup NestedDicts]
    OBVIOUS
  <2>2. [k \in {} |-> Null] \in Metadata
    BY <2>1 DEF Metadata, Dictionaries
  <2> QED
    BY <2>2 DEF Default, Values
<1>2. \A f \in DOMAIN Default["lifecycle"] : Default["lifecycle"][f] = Null
  BY DEF Default
<1>3. \A f \in DOMAIN Default["provenance"] : Default["provenance"][f] = Null
  BY DEF Default
<1>4. \A f \in DOMAIN Default["scoring"] : Default["scoring"][f] \in Values["scoring"][f]
  <2>1. 0 \in 0..MaxCount /\ 50 \in Ratios /\ 100 \in Ratios /\ 1 \in Rates
    BY ScoringAssumption, CountAssumption
  <2>2. DOMAIN Default["scoring"] = {"importance", "confidence", "decay_rate", "access_count"}
    BY DEF Default
  <2>3. /\ Default["scoring"]["importance"] \in Values["scoring"]["importance"]
        /\ Default["scoring"]["confidence"] \in Values["scoring"]["confidence"]
        /\ Default["scoring"]["decay_rate"] \in Values["scoring"]["decay_rate"]
        /\ Default["scoring"]["access_count"] \in Values["scoring"]["access_count"]
    BY <2>1 DEF Default, Values
  <2> QED
    BY <2>2, <2>3
<1>5. \A f \in DOMAIN Default["access_policy"] :
        Default["access_policy"][f] \in Values["access_policy"][f]
  <2>1. DOMAIN Default["access_policy"] = {"readable_by", "writable_by", "public"}
    BY DEF Default
  <2>2. /\ Default["access_policy"]["readable_by"] \in Values["access_policy"]["readable_by"]
        /\ Default["access_policy"]["writable_by"] \in Values["access_policy"]["writable_by"]
    BY DEF Default, Values
  <2>3. Default["access_policy"]["public"] = FALSE
    BY DEF Default
  <2>4. Values["access_policy"]["public"] = BOOLEAN
    BY DEF Values
  <2>5. Default["access_policy"]["public"] \in Values["access_policy"]["public"]
    BY <2>3, <2>4, Zenon
  <2> QED
    BY <2>1, <2>2, <2>5
<1> QED
  BY <1>1, <1>2, <1>3, <1>4, <1>5, ObjectNames DEF Nullable

\* The provenance fields may hold null.
LEMMA ProvenanceMayBeNull ==
    \A f \in Fields("provenance") : Null \in Values["provenance"][f]
BY FieldNames DEF Values, Optional

-----------------------------------------------------------------------------
(* Bodies and merges.                                                       *)

\* Updates whose values have the types of the fields they go to.
Mergeable(updates) ==
    /\ DOMAIN updates \subseteq Updatable
    /\ \A o \in DOMAIN updates : \A f \in DOMAIN updates[o] :
          /\ f \in UpdateFields(o)
          /\ updates[o][f] \in Values[o][f]

\* A body that validation accepts is parsed to the model's fields, each of
\* its type, or null where that is declared.
LEMMA ParsedTyped ==
    ASSUME NEW body \in Requests, NEW o \in DOMAIN body
    PROVE  /\ o \in Updatable
           /\ DOMAIN Parsed(o, body[o]) = UpdateFields(o)
           /\ \A f \in UpdateFields(o) :
                 \/ Parsed(o, body[o])[f] \in Values[o][f]
                 \/ o \in Nullable /\ Parsed(o, body[o])[f] = Null
<1>1. Accepted(body)
  BY RequestsAssumption
<1>2. o \in Updatable
  BY <1>1 DEF Accepted
<1>3. ASSUME NEW f \in UpdateFields(o), f \in DOMAIN body[o]
      PROVE  \/ Parsed(o, body[o])[f] \in Values[o][f]
             \/ o \in Nullable /\ Parsed(o, body[o])[f] = Null
  BY <1>1, <1>3 DEF Accepted, Parsed
<1>4. ASSUME NEW f \in UpdateFields(o), f \notin DOMAIN body[o]
      PROVE  \/ Parsed(o, body[o])[f] \in Values[o][f]
             \/ o \in Nullable /\ Parsed(o, body[o])[f] = Null
  <2>1. f \in DOMAIN Default[o]
    BY <1>1, <1>4 DEF Accepted, UpdateFields
  <2> QED
    BY <2>1, <1>2, <1>4, DefaultsTyped DEF Parsed
<1> QED
  BY <1>2, <1>3, <1>4 DEF Parsed

\* What a body dumps to can be merged.
LEMMA DumpedMergeable ==
    ASSUME NEW body \in Requests
    PROVE  DOMAIN Dumped(body) = DOMAIN body /\ Mergeable(Dumped(body))
<1>1. DOMAIN Dumped(body) = DOMAIN body
  BY DEF Dumped
<1>2. ASSUME NEW o \in DOMAIN body, NEW f \in DOMAIN Dumped(body)[o]
      PROVE  o \in Updatable /\ f \in UpdateFields(o) /\ Dumped(body)[o][f] \in Values[o][f]
  <2>1. Dumped(body)[o] = WithoutNone(Parsed(o, body[o]))
    BY DEF Dumped
  <2>2. /\ f \in DOMAIN Parsed(o, body[o])
        /\ Parsed(o, body[o])[f] # Null
        /\ Dumped(body)[o][f] = Parsed(o, body[o])[f]
    BY <1>2, <2>1 DEF WithoutNone
  <2> QED
    BY <2>2, ParsedTyped
<1>3. DOMAIN body \subseteq Updatable
  BY RequestsAssumption DEF Accepted
<1> QED
  BY <1>1, <1>2, <1>3 DEF Mergeable

\* The update the engine writes can be merged.
LEMMA StatusMergeable ==
    ASSUME NEW status \in Status
    PROVE  Mergeable(StatusUpdate(status))
<1>1. "lifecycle" \in Updatable /\ "status" \in UpdateFields("lifecycle")
  BY ObjectNames, UpdateFieldNames
<1>2. Values["lifecycle"]["status"] = Status
  BY DEF Values
<1> QED
  BY <1>1, <1>2 DEF Mergeable, StatusUpdate

\* A merge of dictionaries has the keys of both.
LEMMA MergedDictTyped ==
    ASSUME NEW m \in NestedDicts, NEW n \in NestedDicts
    PROVE  MergedDict(m, n) \in NestedDicts
<1>1. PICK K \in SUBSET MetaKeys : m \in [K -> MetaValues]
  BY DEF NestedDicts, Dictionaries
<1>2. PICK L \in SUBSET MetaKeys : n \in [L -> MetaValues]
  BY DEF NestedDicts, Dictionaries
<1>3. MergedDict(m, n) \in [K \cup L -> MetaValues]
  BY <1>1, <1>2 DEF MergedDict
<1>4. K \cup L \in SUBSET MetaKeys
  OBVIOUS
<1> QED
  BY <1>3, <1>4 DEF NestedDicts, Dictionaries

\* Merging metadata gives metadata.
LEMMA MergedMetadataTyped ==
    ASSUME NEW m \in Metadata, NEW n \in Metadata
    PROVE  MergedMetadata(m, n) \in Metadata
<1> DEFINE V == MetaValues \cup NestedDicts
           d == MergedMetadata(m, n)
<1>1. PICK K \in SUBSET MetaKeys : m \in [K -> V]
  BY DEF Metadata, Dictionaries
<1>2. PICK L \in SUBSET MetaKeys : n \in [L -> V]
  BY DEF Metadata, Dictionaries
<1>3. ASSUME NEW k \in K \cup L
      PROVE  d[k] \in V
  <2>1. CASE k \notin L
    BY <1>1, <1>2, <2>1 DEF MergedMetadata
  <2>2. CASE k \in L /\ k \in K /\ m[k] \in NestedDicts /\ n[k] \in NestedDicts
    <3>1. d[k] = MergedDict(m[k], n[k])
      BY <1>1, <1>2, <2>2 DEF MergedMetadata
    <3> QED
      BY <2>2, <3>1, MergedDictTyped
  <2>3. CASE k \in L /\ ~(k \in K /\ m[k] \in NestedDicts /\ n[k] \in NestedDicts)
    <3>1. d[k] = n[k]
      BY <1>1, <1>2, <2>3 DEF MergedMetadata
    <3> QED
      BY <1>2, <2>3, <3>1
  <2> QED
    BY <2>1, <2>2, <2>3
<1>4. d = [k \in K \cup L |-> d[k]]
  BY <1>1, <1>2 DEF MergedMetadata
<1>5. d \in [K \cup L -> V]
  BY <1>3, <1>4
<1>6. K \cup L \in SUBSET MetaKeys
  OBVIOUS
<1> QED
  BY <1>5, <1>6 DEF Metadata, Dictionaries

\* The merge keeps every object and field, and their types.
LEMMA MergeTyped ==
    ASSUME NEW c, WellFormed(c), NEW updates, Mergeable(updates)
    PROVE  WellFormed(ApplyUpdates(c, updates))
<1> DEFINE d == ApplyUpdates(c, updates)
<1>1. DOMAIN d = Objects
  BY DEF ApplyUpdates, WellFormed
<1>2. ASSUME NEW o \in Objects
      PROVE  DOMAIN d[o] = Fields(o) /\ \A f \in Fields(o) : d[o][f] \in Values[o][f]
  <2>1. CASE ~(o \in DOMAIN updates /\ <<o>> \notin ImmutablePaths)
    <3>1. d[o] = c[o]
      BY <2>1 DEF ApplyUpdates, WellFormed
    <3> QED
      BY <3>1 DEF WellFormed
  <2>2. CASE o \in DOMAIN updates /\ <<o>> \notin ImmutablePaths
    <3>1. d[o] = MergedObject(o, c[o], updates[o])
      BY <2>2 DEF ApplyUpdates, WellFormed
    <3>2. DOMAIN d[o] = Fields(o)
      BY <3>1 DEF MergedObject, WellFormed
    <3>3. ASSUME NEW f \in Fields(o)
          PROVE  d[o][f] \in Values[o][f]
      <4>1. c[o][f] \in Values[o][f] /\ f \in DOMAIN c[o]
        BY DEF WellFormed
      <4>2. f \in DOMAIN updates[o] => updates[o][f] \in Values[o][f]
        BY <2>2 DEF Mergeable
      <4>3. CASE f \notin DOMAIN updates[o] \/ <<o, f>> \in ImmutablePaths
        BY <3>1, <4>1, <4>3 DEF MergedObject
      <4>4. CASE f \in DOMAIN updates[o] /\ <<o, f>> \notin ImmutablePaths /\ f = "metadata"
        <5>1. o = "content"
          BY <4>4, ObjectNames, FieldNames
        <5>2. Values[o][f] = Metadata
          BY <5>1, <4>4 DEF Values
        <5>3. d[o][f] = MergedMetadata(c[o][f], updates[o][f])
          BY <3>1, <4>1, <4>4 DEF MergedObject
        <5> QED
          BY <5>2, <5>3, <4>1, <4>2, <4>4, MergedMetadataTyped
      <4>5. CASE f \in DOMAIN updates[o] /\ <<o, f>> \notin ImmutablePaths /\ f # "metadata"
        BY <3>1, <4>1, <4>2, <4>5 DEF MergedObject
      <4> QED
        BY <4>3, <4>4, <4>5
    <3> QED
      BY <3>2, <3>3
  <2> QED
    BY <2>1, <2>2
<1> QED
  BY <1>1, <1>2 DEF WellFormed

\* Setting one field of one object.
LEMMA FieldSet ==
    ASSUME NEW c, WellFormed(c), NEW o \in Objects, NEW f \in Fields(o),
           NEW v \in Values[o][f]
    PROVE  WellFormed([c EXCEPT ![o] = [c[o] EXCEPT ![f] = v]])
BY DEF WellFormed

\* The stamp keeps the types.
LEMMA StampTyped ==
    ASSUME NEW c, WellFormed(c), NEW t \in Time
    PROVE  WellFormed(Stamped(c, t))
<1>1. Stamped(c, t) = [c EXCEPT !["lifecycle"] = [c["lifecycle"] EXCEPT !["last_updated_at"] = t]]
  BY DEF Stamped
<1>2. "lifecycle" \in Objects /\ "last_updated_at" \in Fields("lifecycle")
  BY ObjectNames, FieldNames
<1>3. t \in Values["lifecycle"]["last_updated_at"]
  BY DEF Values, Optional
<1>4. WellFormed([c EXCEPT !["lifecycle"] = [c["lifecycle"] EXCEPT !["last_updated_at"] = t]])
  BY <1>2, <1>3, FieldSet
<1> QED
  BY <1>1, <1>4

-----------------------------------------------------------------------------
(* Type correctness.                                                        *)

\* The cell a create request builds.
LEMMA CreatedTyped ==
    ASSUME NEW body \in Requests, "lifecycle" \notin DOMAIN body,
           "content" \in DOMAIN body, NEW agent \in Agents, NEW owner \in Agents,
           NEW t \in Time
    PROVE  WellFormed(Created(body, agent, owner, t))
<1> DEFINE c == Created(body, agent, owner, t)
<1>1. DOMAIN c = Objects
  BY DEF Created
<1>2. DOMAIN c["identity"] = Fields("identity") /\ \A f \in Fields("identity") : c["identity"][f] \in Values["identity"][f]
  <2>1. c["identity"] = [owner_id |-> owner, created_by |-> agent]
    BY ObjectNames DEF Created
  <2> QED
    BY <2>1, FieldNames DEF Values
<1>3. DOMAIN c["lifecycle"] = Fields("lifecycle") /\ \A f \in Fields("lifecycle") : c["lifecycle"][f] \in Values["lifecycle"][f]
  <2>1. c["lifecycle"] = [created_at |-> t, last_accessed_at |-> Null, last_updated_at |-> Null,
                          expires_at |-> Null, status |-> "active"]
    BY ObjectNames DEF Created
  <2> QED
    BY <2>1, FieldNames DEF Values, Optional, Status
<1>4. ASSUME NEW o \in Objects \ {"identity", "lifecycle"}, o \in DOMAIN body
      PROVE  DOMAIN c[o] = Fields(o) /\ \A f \in Fields(o) : c[o][f] \in Values[o][f]
  <2>1. c[o] = Parsed(o, body[o])
    BY <1>4 DEF Created
  <2>2. UpdateFields(o) = Fields(o)
    BY ObjectNames, FieldNames, UpdateFieldNames
  <2>3. o \in Nullable => o = "provenance"
    BY DEF Nullable
  <2> QED
    BY <1>4, <2>1, <2>2, <2>3, ParsedTyped, ProvenanceMayBeNull
<1>5. ASSUME NEW o \in Objects \ {"identity", "lifecycle"}, o \notin DOMAIN body
      PROVE  DOMAIN c[o] = Fields(o) /\ \A f \in Fields(o) : c[o][f] \in Values[o][f]
  <2>1. o # "content" /\ o \in Updatable
    BY <1>5, ObjectNames
  <2>2. c[o] = Default[o]
    BY <1>5 DEF Created
  <2>3. DOMAIN Default[o] = Fields(o)
    BY <2>1, <1>5, ObjectNames, FieldNames, UpdateFieldNames DEF UpdateFields
  <2>4. o \in Nullable => o = "provenance"
    BY DEF Nullable
  <2> QED
    BY <2>1, <2>2, <2>3, <2>4, DefaultsTyped, ProvenanceMayBeNull
<1> QED
  BY <1>1, <1>2, <1>3, <1>4, <1>5 DEF WellFormed

\* The access boost, and the two fields a DELETE writes.
LEMMA BoostTyped ==
    ASSUME TypeOK, GetMemory
    PROVE  TypeOK'
<1> DEFINE d == [cell EXCEPT !["scoring"] =
                    [cell["scoring"] EXCEPT !["access_count"] = cell["scoring"]["access_count"] + 1]]
<1>1. "scoring" \in Objects /\ "access_count" \in Fields("scoring")
  BY ObjectNames, FieldNames
<1>2. Values["scoring"]["access_count"] = 0..MaxCount
  BY DEF Values
<1>3. cell["scoring"]["access_count"] \in 0..MaxCount
  BY <1>1, <1>2 DEF TypeOK, WellFormed
<1>4. cell["scoring"]["access_count"] + 1 \in 0..MaxCount
  BY <1>3, CountAssumption DEF GetMemory
<1>5. WellFormed(d)
  BY <1>1, <1>2, <1>4, FieldSet DEF TypeOK
<1>6. "lifecycle" \in Objects /\ "last_accessed_at" \in Fields("lifecycle")
  BY ObjectNames, FieldNames
<1>7. now \in Values["lifecycle"]["last_accessed_at"]
  BY DEF TypeOK, Values, Optional
<1>8. WellFormed([d EXCEPT !["lifecycle"] = [d["lifecycle"] EXCEPT !["last_accessed_at"] = now]])
  BY <1>5, <1>6, <1>7, FieldSet
<1>9. cell' = [d EXCEPT !["lifecycle"] = [d["lifecycle"] EXCEPT !["last_accessed_at"] = now]]
  BY <1>1, <1>6 DEF GetMemory, TypeOK, WellFormed
<1> QED
  BY <1>8, <1>9 DEF TypeOK, GetMemory

LEMMA DeletedTyped ==
    ASSUME TypeOK, DeleteMemory
    PROVE  TypeOK'
<1> DEFINE d == [cell EXCEPT !["lifecycle"] = [cell["lifecycle"] EXCEPT !["status"] = "deleted"]]
<1>1. "lifecycle" \in Objects /\ "status" \in Fields("lifecycle")
      /\ "last_updated_at" \in Fields("lifecycle")
  BY ObjectNames, FieldNames
<1>2. "deleted" \in Values["lifecycle"]["status"]
  BY DEF Values, Status
<1>3. WellFormed(d)
  BY <1>1, <1>2, FieldSet DEF TypeOK
<1>4. now \in Values["lifecycle"]["last_updated_at"]
  BY DEF TypeOK, Values, Optional
<1>5. WellFormed([d EXCEPT !["lifecycle"] = [d["lifecycle"] EXCEPT !["last_updated_at"] = now]])
  BY <1>1, <1>3, <1>4, FieldSet
<1>6. cell' = [d EXCEPT !["lifecycle"] = [d["lifecycle"] EXCEPT !["last_updated_at"] = now]]
  BY <1>1 DEF DeleteMemory, TypeOK, WellFormed
<1> QED
  BY <1>5, <1>6 DEF TypeOK, DeleteMemory

\* A write of mergeable updates.
LEMMA UpdateTyped ==
    ASSUME TypeOK, NEW updates, Mergeable(updates), Update(updates)
    PROVE  TypeOK'
<1>1. WellFormed(ApplyUpdates(cell, updates))
  BY MergeTyped DEF TypeOK
<1>2. WellFormed(Stamped(ApplyUpdates(cell, updates), now))
  BY <1>1, StampTyped DEF TypeOK
<1> QED
  BY <1>2 DEF TypeOK, Update, UpdatedCell

\* The status the engine asks for is a status.
LEMMA EvaluatedTyped ==
    ASSUME TypeOK
    PROVE  Evaluated(Flat(cell), now) \in Status
<1>1. cell["lifecycle"]["status"] \in Status
  BY ObjectNames, FieldNames DEF TypeOK, WellFormed, Values
<1>2. Flat(cell).status \in Status
  BY <1>1 DEF Flat
<1> QED
  BY <1>2 DEF Evaluated, Status

LEMMA InitTyped == Init => TypeOK
<1> SUFFICES ASSUME Init PROVE TypeOK
  OBVIOUS
<1>1. now \in Time
  BY TimeAssumption DEF Init, Time
<1>2. PICK body \in Requests, agent \in Agents, owner \in Agents :
         /\ "content" \in DOMAIN body /\ "lifecycle" \notin DOMAIN body
         /\ cell = Created(body, agent, owner, now)
  BY DEF Init
<1> QED
  BY <1>1, <1>2, CreatedTyped DEF TypeOK

LEMMA NextTyped == TypeOK /\ [Next]_vars => TypeOK'
<1> SUFFICES ASSUME TypeOK, [Next]_vars PROVE TypeOK'
  OBVIOUS
<1>1. CASE GetMemory
  BY <1>1, BoostTyped
<1>2. ASSUME NEW body \in Requests, UpdateMemory(body)
      PROVE  TypeOK'
  BY <1>2, DumpedMergeable, UpdateTyped DEF UpdateMemory
<1>3. CASE RunLifecycle
  BY <1>3, EvaluatedTyped, StatusMergeable, UpdateTyped DEF RunLifecycle
<1>4. CASE DeleteMemory
  BY <1>4, DeletedTyped
<1>5. CASE Tick
  BY <1>5, TimeAssumption DEF Tick, TypeOK, Time
<1>6. CASE UNCHANGED vars
  BY <1>6 DEF vars, TypeOK
<1> QED
  BY <1>1, <1>2, <1>3, <1>4, <1>5, <1>6 DEF Next

\* The stored cell has its types in every reachable state, for all bodies
\* validation accepts.
THEOREM TypeCorrect == Spec => []TypeOK
BY InitTyped, NextTyped, PTL DEF Spec

-----------------------------------------------------------------------------
(* What the merge does to each field.                                       *)

\* An object the updates do not name, and the identity, is kept whole.
LEMMA ObjectKept ==
    ASSUME NEW c, WellFormed(c), NEW updates, NEW o \in Objects,
           o \notin DOMAIN updates \/ o = "identity"
    PROVE  ApplyUpdates(c, updates)[o] = c[o]
BY DEF ApplyUpdates, WellFormed, ImmutablePaths

\* A field the body sends a value for, or its model completes, takes that
\* value; null takes nothing.
LEMMA FieldMerged ==
    ASSUME NEW c, WellFormed(c), NEW body \in Requests, NEW o \in DOMAIN body,
           NEW f \in UpdateFields(o), f # "metadata"
    PROVE  ApplyUpdates(c, Dumped(body))[o][f] = Or(Parsed(o, body[o])[f], c[o][f])
<1> DEFINE u == Dumped(body)
<1>1. /\ o \in Objects /\ o # "identity" /\ f \in Fields(o)
      /\ DOMAIN Parsed(o, body[o]) = UpdateFields(o)
  BY ParsedTyped, ObjectNames, UpdateFieldsAreFields
<1>2. <<o>> \notin ImmutablePaths /\ <<o, f>> \notin ImmutablePaths
  BY <1>1, UpdateFieldNames, ObjectNames DEF ImmutablePaths
<1>3. u[o] = WithoutNone(Parsed(o, body[o])) /\ o \in DOMAIN u
  BY DEF Dumped
<1>4. ApplyUpdates(c, u)[o] = MergedObject(o, c[o], u[o])
  BY <1>1, <1>2, <1>3 DEF ApplyUpdates, WellFormed
<1>5. f \in DOMAIN c[o]
  BY <1>1 DEF WellFormed
<1>6. CASE Parsed(o, body[o])[f] = Null
  <2>1. f \notin DOMAIN u[o]
    BY <1>3, <1>6 DEF WithoutNone
  <2> QED
    BY <2>1, <1>4, <1>5, <1>6 DEF MergedObject, Or
<1>7. CASE Parsed(o, body[o])[f] # Null
  <2>1. f \in DOMAIN u[o] /\ u[o][f] = Parsed(o, body[o])[f]
    BY <1>1, <1>3, <1>7 DEF WithoutNone
  <2> QED
    BY <2>1, <1>2, <1>4, <1>5, <1>7 DEF MergedObject, Or
<1> QED
  BY <1>6, <1>7

\* The creation time is kept.
LEMMA CreationKept ==
    ASSUME NEW c, WellFormed(c), NEW updates
    PROVE  ApplyUpdates(c, updates)["lifecycle"]["created_at"] = c["lifecycle"]["created_at"]
<1>1. "lifecycle" \in Objects /\ "created_at" \in Fields("lifecycle")
  BY ObjectNames, FieldNames
<1>2. CASE "lifecycle" \notin DOMAIN updates
  BY <1>1, <1>2, ObjectKept
<1>3. CASE "lifecycle" \in DOMAIN updates
  <2>1. <<"lifecycle">> \notin ImmutablePaths /\ <<"lifecycle", "created_at">> \in ImmutablePaths
    BY DEF ImmutablePaths
  <2>2. ApplyUpdates(c, updates)["lifecycle"]
           = MergedObject("lifecycle", c["lifecycle"], updates["lifecycle"])
    BY <1>1, <1>3, <2>1 DEF ApplyUpdates, WellFormed
  <2> QED
    BY <1>1, <2>1, <2>2 DEF MergedObject, WellFormed
<1> QED
  BY <1>2, <1>3

\* An object whose model has no nulls is replaced by what its model holds.
LEMMA ObjectReplaced ==
    ASSUME NEW c, WellFormed(c), NEW body \in Requests,
           NEW o \in {"scoring", "access_policy"}, o \in DOMAIN body
    PROVE  ApplyUpdates(c, Dumped(body))[o] = Parsed(o, body[o])
<1> DEFINE d == ApplyUpdates(c, Dumped(body))
<1>1. o \in Objects /\ o \in Updatable \ Nullable /\ UpdateFields(o) = Fields(o)
  BY ObjectNames, UpdateFieldNames DEF Nullable
<1>2. \A f \in UpdateFields(o) : Parsed(o, body[o])[f] # Null
  BY <1>1, ParsedTyped, AbsentAssumption
<1>3. \A f \in UpdateFields(o) : f # "metadata"
  BY <1>1, FieldNames
<1>4. \A f \in Fields(o) : d[o][f] = Parsed(o, body[o])[f]
  BY <1>1, <1>2, <1>3, FieldMerged DEF Or
<1>5. DOMAIN d[o] = Fields(o)
  BY <1>1, DumpedMergeable, MergeTyped DEF WellFormed
<1>6. DOMAIN Parsed(o, body[o]) = Fields(o)
  BY <1>1, ParsedTyped
<1>7. d[o] = [f \in Fields(o) |-> d[o][f]]
  <2>1. d[o] = MergedObject(o, c[o], Dumped(body)[o])
    BY <1>1 DEF ApplyUpdates, WellFormed, ImmutablePaths, Dumped
  <2> QED
    BY <2>1, <1>1 DEF MergedObject, WellFormed
<1>8. Parsed(o, body[o]) = [f \in Fields(o) |-> Parsed(o, body[o])[f]]
  BY <1>1 DEF Parsed
<1> QED
  BY <1>4, <1>7, <1>8

-----------------------------------------------------------------------------
(* The flat cell.                                                           *)

LEMMA BodyBytesNat ==
    ASSUME NEW c, WellFormed(c)
    PROVE  BodyBytes(c) \in Nat
<1>1. c["content"]["text"] \in Texts
  BY ObjectNames, FieldNames DEF WellFormed, Values
<1>2. c["content"]["metadata"] \in Metadata
  BY ObjectNames, FieldNames DEF WellFormed, Values
<1>3. TextBytes[c["content"]["text"]] \in Nat
  BY <1>1, SizeAssumption
<1>4. MetaBytes[c["content"]["metadata"]] \in Nat
  BY <1>2, SizeAssumption
<1>5. StampBytes(c["lifecycle"]["expires_at"]) \in Nat
  BY DEF StampBytes
<1> QED
  BY <1>3, <1>4, <1>5 DEF BodyBytes

\* The digits of the stored count.
LEMMA CountDigits ==
    ASSUME NEW c, WellFormed(c)
    PROVE  /\ DigitsOf[c["scoring"]["access_count"]] \in Nat
           /\ DigitsOf[c["scoring"]["access_count"]] >= 1
<1>0. "scoring" \in Objects /\ "access_count" \in Fields("scoring")
  BY ObjectNames, FieldNames
<1>1. c["scoring"]["access_count"] \in 0..MaxCount
  <2>1. c["scoring"]["access_count"] \in Values["scoring"]["access_count"]
    BY <1>0 DEF WellFormed
  <2>2. Values["scoring"]["access_count"] = 0..MaxCount
    BY DEF Values
  <2> QED
    BY <2>1, <2>2
<1>2. DigitsOf[c["scoring"]["access_count"]] \in 1..MaxDigits
  BY <1>1, CountAssumption DEF Digits
<1> QED
  BY <1>2, DataAssumption

\* The flat cell does not see the stamp but as last_updated_at.
LEMMA FlatStamped ==
    ASSUME NEW c, WellFormed(c), NEW t
    PROVE  Flat(Stamped(c, t)) = [Flat(c) EXCEPT !.last_updated_at = t]
<1> DEFINE s == Stamped(c, t)
<1>1. /\ s["content"] = c["content"] /\ s["identity"] = c["identity"]
      /\ s["scoring"] = c["scoring"] /\ s["access_policy"] = c["access_policy"]
  BY ObjectNames DEF Stamped, WellFormed
<1>2. /\ s["lifecycle"]["created_at"] = c["lifecycle"]["created_at"]
      /\ s["lifecycle"]["last_accessed_at"] = c["lifecycle"]["last_accessed_at"]
      /\ s["lifecycle"]["last_updated_at"] = t
      /\ s["lifecycle"]["expires_at"] = c["lifecycle"]["expires_at"]
      /\ s["lifecycle"]["status"] = c["lifecycle"]["status"]
  BY ObjectNames, FieldNames DEF Stamped, WellFormed
<1>3. BodyBytes(s) = BodyBytes(c)
  BY <1>1, <1>2 DEF BodyBytes
<1> HIDE DEF s
<1>4. Flat(s) = [Flat(c) EXCEPT !.last_updated_at = t]
  BY <1>1, <1>2, <1>3 DEF Flat
<1> QED
  BY <1>4 DEF s

FlatFields == {"created_at", "last_accessed_at", "last_updated_at", "status",
               "lifetime", "digits", "body", "owner_id", "created_by", "policy"}
IsFlat(r) == r = [f \in FlatFields |-> r[f]]

LEMMA FlatIsFlat == \A c : IsFlat(Flat(c))
BY DEF Flat, IsFlat, FlatFields

LEMMA FlatValues ==
    ASSUME NEW c
    PROVE  /\ Flat(c)["created_at"] = c["lifecycle"]["created_at"]
           /\ Flat(c)["last_accessed_at"] = c["lifecycle"]["last_accessed_at"]
           /\ Flat(c)["last_updated_at"] = c["lifecycle"]["last_updated_at"]
           /\ Flat(c)["status"] = c["lifecycle"]["status"]
           /\ Flat(c)["lifetime"] = LifetimeOfScoring(c["scoring"])
           /\ Flat(c)["digits"] = DigitsOf[c["scoring"]["access_count"]]
           /\ Flat(c)["body"] = BodyBytes(c)
           /\ Flat(c)["owner_id"] = c["identity"]["owner_id"]
           /\ Flat(c)["created_by"] = c["identity"]["created_by"]
           /\ Flat(c)["policy"] = c["access_policy"]
BY DEF Flat

\* What an update and a deletion make of each field of a flat cell.
LEMMA UpdatedFields ==
    ASSUME NEW r, IsFlat(r), NEW p, NEW t
    PROVE  Updated(r, p, t) =
              [created_at       |-> r["created_at"],
               last_accessed_at |-> Or(p.last_accessed_at, r["last_accessed_at"]),
               last_updated_at  |-> t,
               status           |-> Or(p.status, r["status"]),
               lifetime         |-> Or(p.lifetime, r["lifetime"]),
               digits           |-> Or(p.digits, r["digits"]),
               body             |-> Or(p.body, r["body"]),
               owner_id         |-> r["owner_id"],
               created_by       |-> r["created_by"],
               policy           |-> Or(p.policy, r["policy"])]
<1> DEFINE m == Merged(r, p)
<1>1. DOMAIN r = FlatFields
  BY DEF IsFlat
<1>2. m = [f \in FlatFields |-> m[f]]
  BY <1>1 DEF Merged
<1>3. m["status"] = Or(p.status, r["status"])
  BY <1>1 DEF Merged, FlatFields
<1>4. m["lifetime"] = Or(p.lifetime, r["lifetime"])
  BY <1>1 DEF Merged, FlatFields
<1>5. m["digits"] = Or(p.digits, r["digits"]) /\ m["body"] = Or(p.body, r["body"])
  BY <1>1 DEF Merged, FlatFields
<1>6. m["last_accessed_at"] = Or(p.last_accessed_at, r["last_accessed_at"])
  BY <1>1 DEF Merged, FlatFields
<1>7. m["policy"] = Or(p.policy, r["policy"])
  BY <1>1 DEF Merged, FlatFields
<1>8. /\ m["created_at"] = r["created_at"] /\ m["last_updated_at"] = r["last_updated_at"]
      /\ m["owner_id"] = r["owner_id"] /\ m["created_by"] = r["created_by"]
  BY <1>1 DEF Merged, FlatFields
<1> HIDE DEF m
<1>9. [m EXCEPT !.last_updated_at = t] =
              [created_at       |-> r["created_at"],
               last_accessed_at |-> Or(p.last_accessed_at, r["last_accessed_at"]),
               last_updated_at  |-> t,
               status           |-> Or(p.status, r["status"]),
               lifetime         |-> Or(p.lifetime, r["lifetime"]),
               digits           |-> Or(p.digits, r["digits"]),
               body             |-> Or(p.body, r["body"]),
               owner_id         |-> r["owner_id"],
               created_by       |-> r["created_by"],
               policy           |-> Or(p.policy, r["policy"])]
  BY <1>2, <1>3, <1>4, <1>5, <1>6, <1>7, <1>8 DEF FlatFields
<1> QED
  BY <1>9 DEF Updated, m

LEMMA FlatUpdated ==
    ASSUME NEW c, NEW p, NEW t
    PROVE  Updated(Flat(c), p, t) =
              [created_at       |-> c["lifecycle"]["created_at"],
               last_accessed_at |-> Or(p.last_accessed_at, c["lifecycle"]["last_accessed_at"]),
               last_updated_at  |-> t,
               status           |-> Or(p.status, c["lifecycle"]["status"]),
               lifetime         |-> Or(p.lifetime, LifetimeOfScoring(c["scoring"])),
               digits           |-> Or(p.digits, DigitsOf[c["scoring"]["access_count"]]),
               body             |-> Or(p.body, BodyBytes(c)),
               owner_id         |-> c["identity"]["owner_id"],
               created_by       |-> c["identity"]["created_by"],
               policy           |-> Or(p.policy, c["access_policy"])]
<1>1. IsFlat(Flat(c))
  BY FlatIsFlat
<1>2. Updated(Flat(c), p, t) =
              [created_at       |-> Flat(c)["created_at"],
               last_accessed_at |-> Or(p.last_accessed_at, Flat(c)["last_accessed_at"]),
               last_updated_at  |-> t,
               status           |-> Or(p.status, Flat(c)["status"]),
               lifetime         |-> Or(p.lifetime, Flat(c)["lifetime"]),
               digits           |-> Or(p.digits, Flat(c)["digits"]),
               body             |-> Or(p.body, Flat(c)["body"]),
               owner_id         |-> Flat(c)["owner_id"],
               created_by       |-> Flat(c)["created_by"],
               policy           |-> Or(p.policy, Flat(c)["policy"])]
  BY <1>1, UpdatedFields
<1> QED
  BY <1>2, FlatValues

LEMMA MarkedDeletedFields ==
    ASSUME NEW r, IsFlat(r), NEW t
    PROVE  MarkedDeleted(r, t) =
              [created_at       |-> r["created_at"],
               last_accessed_at |-> r["last_accessed_at"],
               last_updated_at  |-> t,
               status           |-> "deleted",
               lifetime         |-> r["lifetime"],
               digits           |-> r["digits"],
               body             |-> r["body"],
               owner_id         |-> r["owner_id"],
               created_by       |-> r["created_by"],
               policy           |-> r["policy"]]
<1> DEFINE d == [r EXCEPT !["status"] = "deleted"]
<1>1. DOMAIN r = FlatFields
  BY DEF IsFlat
<1>2. d = [f \in FlatFields |-> d[f]]
  BY <1>1
<1>3. d["status"] = "deleted" /\ \A f \in FlatFields \ {"status"} : d[f] = r[f]
  BY <1>1 DEF FlatFields
<1> HIDE DEF d
<1>4. [d EXCEPT !["last_updated_at"] = t] =
              [created_at       |-> r["created_at"],
               last_accessed_at |-> r["last_accessed_at"],
               last_updated_at  |-> t,
               status           |-> "deleted",
               lifetime         |-> r["lifetime"],
               digits           |-> r["digits"],
               body             |-> r["body"],
               owner_id         |-> r["owner_id"],
               created_by       |-> r["created_by"],
               policy           |-> r["policy"]]
  BY <1>2, <1>3 DEF FlatFields
<1> QED
  BY <1>4 DEF MarkedDeleted, d

\* A parsed scoring has a lifetime and a count, and a parsed policy is a policy.
LEMMA ParsedValues ==
    ASSUME NEW body \in Requests
    PROVE  /\ "scoring" \in DOMAIN body =>
                 /\ LifetimeOfScoring(Parsed("scoring", body["scoring"])) # Null
                 /\ DigitsOf[Parsed("scoring", body["scoring"])["access_count"]] # Null
           /\ "access_policy" \in DOMAIN body =>
                 Parsed("access_policy", body["access_policy"]) # Null
<1>1. ASSUME "scoring" \in DOMAIN body
      PROVE  /\ LifetimeOfScoring(Parsed("scoring", body["scoring"])) # Null
             /\ DigitsOf[Parsed("scoring", body["scoring"])["access_count"]] # Null
  <2> DEFINE s == Parsed("scoring", body["scoring"])
  <2>1. "scoring" \notin Nullable /\ UpdateFields("scoring") = Fields("scoring")
    BY UpdateFieldNames DEF Nullable
  <2>2. s["importance"] \in Ratios /\ s["confidence"] \in Ratios /\ s["decay_rate"] \in Rates
    BY <1>1, <2>1, FieldNames, ParsedTyped DEF Values
  <2>3. LifetimeOf[<<s["importance"], s["confidence"], s["decay_rate"]>>] \in Int
    <3> HIDE DEF s
    <3> QED
      BY <2>2, ScoringAssumption
  <2>4. s["access_count"] \in 0..MaxCount
    <3>1. s["access_count"] \in Values["scoring"]["access_count"]
      BY <1>1, <2>1, FieldNames, ParsedTyped
    <3>2. Values["scoring"]["access_count"] = 0..MaxCount
      BY DEF Values
    <3> QED
      BY <3>1, <3>2
  <2>5. DigitsOf[s["access_count"]] \in 1..MaxDigits
    <3> HIDE DEF s
    <3> QED
      BY <2>4, CountAssumption DEF Digits
  <2>6. DigitsOf[s["access_count"]] # Null
    <3> HIDE DEF s
    <3> QED
      BY <2>5, NullAssumption
  <2> QED
    BY <2>3, <2>6, NullAssumption DEF LifetimeOfScoring
<1>2. ASSUME "access_policy" \in DOMAIN body
      PROVE  Parsed("access_policy", body["access_policy"]) # Null
  <2> DEFINE p == Parsed("access_policy", body["access_policy"])
  <2>1. "access_policy" \notin Nullable /\ UpdateFields("access_policy") = Fields("access_policy")
    BY UpdateFieldNames DEF Nullable
  <2>2. /\ DOMAIN p = {"readable_by", "writable_by", "public"}
        /\ \A f \in DOMAIN p : p[f] \in Values["access_policy"][f]
    BY <1>2, <2>1, FieldNames, ParsedTyped
  <2>3. p["readable_by"] \in SUBSET Agents /\ p["writable_by"] \in SUBSET Agents
    BY <2>2 DEF Values
  <2>4. p["public"] \in Values["access_policy"]["public"]
    BY <2>2
  <2>5. Values["access_policy"]["public"] = BOOLEAN
    BY DEF Values
  <2>6. p["public"] \in BOOLEAN
    BY <2>4, <2>5
  <2>7. p = [f \in {"readable_by", "writable_by", "public"} |-> p[f]]
    BY <2>1, FieldNames DEF Parsed
  <2>8. p \in AccessPolicy
    <3> HIDE DEF p
    <3> QED
      BY <2>3, <2>6, <2>7 DEF AccessPolicy
  <2> QED
    BY <2>8, NullAssumption
<1> QED
  BY <1>1, <1>2

\* A PATCH of the nested cell is the flat patch of the flat cell.
LEMMA FlatOfPatch ==
    ASSUME NEW c, WellFormed(c), NEW body \in Requests, NEW t \in Time
    PROVE  Flat(UpdatedCell(c, Dumped(body), t)) = Updated(Flat(c), FlatPatch(body, c), t)
<1> DEFINE u == Dumped(body)
           d == ApplyUpdates(c, u)
           p == FlatPatch(body, c)
<1>0. WellFormed(d) /\ DOMAIN u = DOMAIN body
  BY DumpedMergeable, MergeTyped
<1>1. d["identity"] = c["identity"]
  BY ObjectNames, ObjectKept
<1>2. d["lifecycle"]["created_at"] = c["lifecycle"]["created_at"]
  BY CreationKept
<1>3. d["lifecycle"]["status"] = Or(p.status, c["lifecycle"]["status"])
  <2>1. p.status = RequestedStatus(u)
    BY DEF FlatPatch
  <2>2. CASE "lifecycle" \notin DOMAIN body
    <3>1. RequestedStatus(u) = Null
      BY <1>0, <2>2 DEF RequestedStatus
    <3> QED
      BY <1>0, <2>1, <2>2, <3>1, ObjectNames, ObjectKept DEF Or
  <2>3. CASE "lifecycle" \in DOMAIN body
    <3> DEFINE parsed == Parsed("lifecycle", body["lifecycle"])
    <3>1. u["lifecycle"] = WithoutNone(parsed) /\ "status" \in DOMAIN parsed
      BY <2>3, ParsedTyped, UpdateFieldNames DEF Dumped
    <3>2. RequestedStatus(u) = parsed["status"]
      BY <1>0, <2>3, <3>1 DEF RequestedStatus, WithoutNone
    <3> QED
      BY <2>1, <2>3, <3>2, UpdateFieldNames, FieldMerged
  <2> QED
    BY <2>2, <2>3
<1>4. d["lifecycle"]["last_accessed_at"]
         = Or(p.last_accessed_at, c["lifecycle"]["last_accessed_at"])
  <2>1. CASE "lifecycle" \notin DOMAIN body
    BY <1>0, <2>1, ObjectNames, ObjectKept DEF Or, FlatPatch
  <2>2. CASE "lifecycle" \in DOMAIN body
    BY <2>2, UpdateFieldNames, FieldMerged DEF FlatPatch
  <2> QED
    BY <2>1, <2>2
<1>5. LifetimeOfScoring(d["scoring"]) = Or(p.lifetime, LifetimeOfScoring(c["scoring"]))
  <2>1. CASE "scoring" \notin DOMAIN body
    BY <1>0, <2>1, ObjectNames, ObjectKept DEF Or, FlatPatch
  <2>2. CASE "scoring" \in DOMAIN body
    <3>1. p.lifetime = LifetimeOfScoring(Parsed("scoring", body["scoring"])) /\ p.lifetime # Null
      BY <2>2, ParsedValues DEF FlatPatch
    <3>2. d["scoring"] = Parsed("scoring", body["scoring"])
      BY <2>2, ObjectReplaced
    <3> QED
      BY <3>1, <3>2 DEF Or
  <2> QED
    BY <2>1, <2>2
<1>6. d["access_policy"] = Or(p.policy, c["access_policy"])
  <2>1. CASE "access_policy" \notin DOMAIN body
    BY <1>0, <2>1, ObjectNames, ObjectKept DEF Or, FlatPatch
  <2>2. CASE "access_policy" \in DOMAIN body
    <3>1. p.policy = Parsed("access_policy", body["access_policy"]) /\ p.policy # Null
      BY <2>2, ParsedValues DEF FlatPatch
    <3>2. d["access_policy"] = Parsed("access_policy", body["access_policy"])
      BY <2>2, ObjectReplaced
    <3> QED
      BY <3>1, <3>2 DEF Or
  <2> QED
    BY <2>1, <2>2
<1>7. BodyBytes(d) = Or(p.body, BodyBytes(c))
  <2>1. p.body = BodyBytes(d)
    BY DEF FlatPatch
  <2>2. p.body # Null
    BY <1>0, <2>1, BodyBytesNat, NullAssumption
  <2> QED
    BY <2>1, <2>2 DEF Or
<1>8. DigitsOf[d["scoring"]["access_count"]]
         = Or(p.digits, DigitsOf[c["scoring"]["access_count"]])
  <2>1. CASE "scoring" \notin DOMAIN body
    BY <1>0, <2>1, ObjectNames, ObjectKept DEF Or, FlatPatch
  <2>2. CASE "scoring" \in DOMAIN body
    <3>1. /\ p.digits = DigitsOf[Parsed("scoring", body["scoring"])["access_count"]]
          /\ p.digits # Null
      BY <2>2, ParsedValues DEF FlatPatch
    <3>2. d["scoring"] = Parsed("scoring", body["scoring"])
      BY <2>2, ObjectReplaced
    <3> QED
      BY <3>1, <3>2 DEF Or
  <2> QED
    BY <2>1, <2>2
<1>9. Flat(UpdatedCell(c, u, t)) = [Flat(d) EXCEPT !.last_updated_at = t]
  BY <1>0, FlatStamped DEF UpdatedCell
<1> HIDE DEF d, p, u
<1>10. Updated(Flat(c), p, t) = [Flat(d) EXCEPT !.last_updated_at = t]
  <2>1. Updated(Flat(c), p, t) =
              [created_at       |-> c["lifecycle"]["created_at"],
               last_accessed_at |-> Or(p.last_accessed_at, c["lifecycle"]["last_accessed_at"]),
               last_updated_at  |-> t,
               status           |-> Or(p.status, c["lifecycle"]["status"]),
               lifetime         |-> Or(p.lifetime, LifetimeOfScoring(c["scoring"])),
               digits           |-> Or(p.digits, DigitsOf[c["scoring"]["access_count"]]),
               body             |-> Or(p.body, BodyBytes(c)),
               owner_id         |-> c["identity"]["owner_id"],
               created_by       |-> c["identity"]["created_by"],
               policy           |-> Or(p.policy, c["access_policy"])]
    BY FlatUpdated
  <2> QED
    BY <2>1, <1>1, <1>2, <1>3, <1>4, <1>5, <1>6, <1>7, <1>8 DEF Flat
<1> QED
  BY <1>9, <1>10 DEF p, u

\* And it is accepted under the flat cell's conditions.
LEMMA RefusedAsFlat ==
    ASSUME NEW c, WellFormed(c), NEW body \in Requests, NEW t \in Time
    PROVE  Refused(c, Dumped(body), t) <=> UpdateRefused(Flat(c), FlatPatch(body, c), t)
<1>1. FlatPatch(body, c).status = RequestedStatus(Dumped(body))
  BY DEF FlatPatch
<1>2. Flat(c).status = c["lifecycle"]["status"]
  BY DEF Flat
<1>3. TooLarge(Flat(UpdatedCell(c, Dumped(body), t)))
         <=> TooLarge(Updated(Flat(c), FlatPatch(body, c), t))
  BY FlatOfPatch
<1> QED
  BY <1>1, <1>2, <1>3 DEF Refused, UpdateRefused

\* The engine's update sets the status and is stamped.
LEMMA FlatOfStatus ==
    ASSUME NEW c, WellFormed(c), NEW status \in Status, NEW t \in Time
    PROVE  Flat(UpdatedCell(c, StatusUpdate(status), t))
              = Updated(Flat(c), [EmptyPatch EXCEPT !.status = status], t)
<1> DEFINE u == StatusUpdate(status)
           d == ApplyUpdates(c, u)
           p == [EmptyPatch EXCEPT !.status = status]
<1>1. WellFormed(d)
  BY StatusMergeable, MergeTyped
<1>2. DOMAIN u = {"lifecycle"} /\ DOMAIN u["lifecycle"] = {"status"}
      /\ u["lifecycle"]["status"] = status
  BY DEF StatusUpdate
<1>3. /\ d["content"] = c["content"] /\ d["identity"] = c["identity"]
      /\ d["scoring"] = c["scoring"] /\ d["access_policy"] = c["access_policy"]
  BY <1>2, ObjectNames, ObjectKept
<1>4. d["lifecycle"] = MergedObject("lifecycle", c["lifecycle"], u["lifecycle"])
  BY <1>2, ObjectNames DEF ApplyUpdates, WellFormed, ImmutablePaths
<1>5. DOMAIN c["lifecycle"] = Fields("lifecycle")
  BY ObjectNames DEF WellFormed
<1>6. \A f \in Fields("lifecycle") \ {"status"} : d["lifecycle"][f] = c["lifecycle"][f]
  BY <1>2, <1>4, <1>5 DEF MergedObject
<1>7. d["lifecycle"]["status"] = status
  BY <1>2, <1>4, <1>5, FieldNames DEF MergedObject, ImmutablePaths
<1>8. BodyBytes(d) = BodyBytes(c)
  BY <1>3, <1>6, FieldNames DEF BodyBytes
<1>9. Flat(UpdatedCell(c, u, t)) = [Flat(d) EXCEPT !.last_updated_at = t]
  BY <1>1, FlatStamped DEF UpdatedCell
<1>10. /\ p.status = status /\ p.status # Null
       /\ p.lifetime = Null /\ p.digits = Null /\ p.body = Null
       /\ p.last_accessed_at = Null /\ p.policy = Null
  BY NullAssumption DEF EmptyPatch
<1> HIDE DEF d, p, u
<1>11. Updated(Flat(c), p, t) = [Flat(d) EXCEPT !.last_updated_at = t]
  <2>1. Updated(Flat(c), p, t) =
              [created_at       |-> c["lifecycle"]["created_at"],
               last_accessed_at |-> c["lifecycle"]["last_accessed_at"],
               last_updated_at  |-> t,
               status           |-> status,
               lifetime         |-> LifetimeOfScoring(c["scoring"]),
               digits           |-> DigitsOf[c["scoring"]["access_count"]],
               body             |-> BodyBytes(c),
               owner_id         |-> c["identity"]["owner_id"],
               created_by       |-> c["identity"]["created_by"],
               policy           |-> c["access_policy"]]
    <3>1. Updated(Flat(c), p, t) =
              [created_at       |-> c["lifecycle"]["created_at"],
               last_accessed_at |-> Or(p.last_accessed_at, c["lifecycle"]["last_accessed_at"]),
               last_updated_at  |-> t,
               status           |-> Or(p.status, c["lifecycle"]["status"]),
               lifetime         |-> Or(p.lifetime, LifetimeOfScoring(c["scoring"])),
               digits           |-> Or(p.digits, DigitsOf[c["scoring"]["access_count"]]),
               body             |-> Or(p.body, BodyBytes(c)),
               owner_id         |-> c["identity"]["owner_id"],
               created_by       |-> c["identity"]["created_by"],
               policy           |-> Or(p.policy, c["access_policy"])]
      BY FlatUpdated
    <3>2. /\ Or(p.last_accessed_at, c["lifecycle"]["last_accessed_at"])
                = c["lifecycle"]["last_accessed_at"]
          /\ Or(p.status, c["lifecycle"]["status"]) = status
          /\ Or(p.lifetime, LifetimeOfScoring(c["scoring"])) = LifetimeOfScoring(c["scoring"])
          /\ Or(p.digits, DigitsOf[c["scoring"]["access_count"]])
                = DigitsOf[c["scoring"]["access_count"]]
          /\ Or(p.body, BodyBytes(c)) = BodyBytes(c)
          /\ Or(p.policy, c["access_policy"]) = c["access_policy"]
      BY <1>10 DEF Or
    <3> QED
      BY <3>1, <3>2
  <2> QED
    BY <2>1, <1>3, <1>6, <1>7, <1>8, FieldNames DEF Flat
<1> QED
  BY <1>9, <1>11 DEF p, u

\* And it is refused under the flat cell's conditions too.
LEMMA StatusRefusedAsFlat ==
    ASSUME NEW c, WellFormed(c), NEW status \in Status, NEW t \in Time
    PROVE  Refused(c, StatusUpdate(status), t)
              <=> UpdateRefused(Flat(c), [EmptyPatch EXCEPT !.status = status], t)
<1>1. RequestedStatus(StatusUpdate(status)) = status
  BY DEF RequestedStatus, StatusUpdate
<1>2. [EmptyPatch EXCEPT !.status = status].status = status
  BY DEF EmptyPatch
<1>3. Flat(c).status = c["lifecycle"]["status"]
  BY DEF Flat
<1>4. TooLarge(Flat(UpdatedCell(c, StatusUpdate(status), t)))
         <=> TooLarge(Updated(Flat(c), [EmptyPatch EXCEPT !.status = status], t))
  BY FlatOfStatus
<1> QED
  BY <1>1, <1>2, <1>3, <1>4 DEF Refused, UpdateRefused

LEMMA FlatOfBoost ==
    ASSUME TypeOK, GetMemory
    PROVE  Flat(cell)' = Boosted(Flat(cell), now, Flat(cell)'.digits)
<1>1. /\ cell'["content"] = cell["content"] /\ cell'["identity"] = cell["identity"]
      /\ cell'["access_policy"] = cell["access_policy"]
  BY ObjectNames DEF GetMemory, TypeOK, WellFormed
<1>2. /\ cell'["scoring"]["importance"] = cell["scoring"]["importance"]
      /\ cell'["scoring"]["confidence"] = cell["scoring"]["confidence"]
      /\ cell'["scoring"]["decay_rate"] = cell["scoring"]["decay_rate"]
  BY ObjectNames, FieldNames DEF GetMemory, TypeOK, WellFormed
<1>3. /\ \A f \in Fields("lifecycle") \ {"last_accessed_at"} :
             cell'["lifecycle"][f] = cell["lifecycle"][f]
      /\ cell'["lifecycle"]["last_accessed_at"] = now
  BY ObjectNames, FieldNames DEF GetMemory, TypeOK, WellFormed
<1>4. BodyBytes(cell') = BodyBytes(cell)
  BY <1>1, <1>3, FieldNames DEF BodyBytes
<1>5. LifetimeOfScoring(cell'["scoring"]) = LifetimeOfScoring(cell["scoring"])
  BY <1>2 DEF LifetimeOfScoring
<1> DEFINE count == cell'["scoring"]["access_count"]
<1>6. Flat(cell)'.digits = DigitsOf[count]
  BY DEF Flat
<1> HIDE DEF count
<1>7. Boosted(Flat(cell), now, DigitsOf[count]) =
              [created_at       |-> cell["lifecycle"]["created_at"],
               last_accessed_at |-> now,
               last_updated_at  |-> cell["lifecycle"]["last_updated_at"],
               status           |-> cell["lifecycle"]["status"],
               lifetime         |-> LifetimeOfScoring(cell["scoring"]),
               digits           |-> DigitsOf[count],
               body             |-> BodyBytes(cell),
               owner_id         |-> cell["identity"]["owner_id"],
               created_by       |-> cell["identity"]["created_by"],
               policy           |-> cell["access_policy"]]
  <2> DEFINE r == Flat(cell)
             a == [r EXCEPT !["last_accessed_at"] = now]
             n == DigitsOf[count]
  <2>1. r = [f \in FlatFields |-> r[f]]
    BY FlatIsFlat DEF IsFlat
  <2>2. Boosted(r, now, n) = [a EXCEPT !["digits"] = n]
    BY <2>1 DEF Boosted
  <2>3. a = [f \in FlatFields |-> IF f = "last_accessed_at" THEN now ELSE r[f]]
    <3> HIDE DEF r
    <3> QED
      BY <2>1
  <2>4. [a EXCEPT !["digits"] = n] = [f \in FlatFields |-> IF f = "digits" THEN n ELSE a[f]]
    <3> HIDE DEF a, n
    <3> QED
      BY <2>3
  <2>5. [f \in FlatFields |-> IF f = "digits" THEN n ELSE a[f]] =
              [created_at       |-> r["created_at"],
               last_accessed_at |-> now,
               last_updated_at  |-> r["last_updated_at"],
               status           |-> r["status"],
               lifetime         |-> r["lifetime"],
               digits           |-> n,
               body             |-> r["body"],
               owner_id         |-> r["owner_id"],
               created_by       |-> r["created_by"],
               policy           |-> r["policy"]]
    <3> HIDE DEF r, n, a
    <3> QED
      BY <2>3 DEF FlatFields
  <2> HIDE DEF a, n
  <2> QED
    BY <2>2, <2>4, <2>5, FlatValues DEF n
<1>8. Flat(cell)' =
              [created_at       |-> cell["lifecycle"]["created_at"],
               last_accessed_at |-> now,
               last_updated_at  |-> cell["lifecycle"]["last_updated_at"],
               status           |-> cell["lifecycle"]["status"],
               lifetime         |-> LifetimeOfScoring(cell["scoring"]),
               digits           |-> DigitsOf[count],
               body             |-> BodyBytes(cell),
               owner_id         |-> cell["identity"]["owner_id"],
               created_by       |-> cell["identity"]["created_by"],
               policy           |-> cell["access_policy"]]
  BY <1>1, <1>3, <1>4, <1>5, FieldNames DEF Flat, count
<1> QED
  BY <1>6, <1>7, <1>8

LEMMA FlatOfDelete ==
    ASSUME TypeOK, DeleteMemory
    PROVE  Flat(cell)' = MarkedDeleted(Flat(cell), now)
<1> DEFINE d == [cell["lifecycle"] EXCEPT !["status"] = "deleted"]
           e == [d EXCEPT !["last_updated_at"] = now]
<1>1. /\ cell'["content"] = cell["content"] /\ cell'["identity"] = cell["identity"]
      /\ cell'["scoring"] = cell["scoring"] /\ cell'["access_policy"] = cell["access_policy"]
  BY ObjectNames DEF DeleteMemory, TypeOK, WellFormed
<1>2. cell'["lifecycle"] = e
  BY ObjectNames DEF DeleteMemory, TypeOK, WellFormed
<1>3. DOMAIN cell["lifecycle"] = Fields("lifecycle")
  BY ObjectNames DEF TypeOK, WellFormed
<1>4. /\ \A f \in Fields("lifecycle") \ {"status", "last_updated_at"} :
             e[f] = cell["lifecycle"][f]
      /\ e["status"] = "deleted"
      /\ e["last_updated_at"] = now
  BY <1>3, FieldNames
<1> HIDE DEF e
<1>5. BodyBytes(cell') = BodyBytes(cell)
  BY <1>1, <1>2, <1>4, FieldNames DEF BodyBytes
<1>6. MarkedDeleted(Flat(cell), now) =
              [created_at       |-> cell["lifecycle"]["created_at"],
               last_accessed_at |-> cell["lifecycle"]["last_accessed_at"],
               last_updated_at  |-> now,
               status           |-> "deleted",
               lifetime         |-> LifetimeOfScoring(cell["scoring"]),
               digits           |-> DigitsOf[cell["scoring"]["access_count"]],
               body             |-> BodyBytes(cell),
               owner_id         |-> cell["identity"]["owner_id"],
               created_by       |-> cell["identity"]["created_by"],
               policy           |-> cell["access_policy"]]
  BY FlatIsFlat, MarkedDeletedFields, FlatValues
<1>7. Flat(cell)' =
              [created_at       |-> cell["lifecycle"]["created_at"],
               last_accessed_at |-> cell["lifecycle"]["last_accessed_at"],
               last_updated_at  |-> now,
               status           |-> "deleted",
               lifetime         |-> LifetimeOfScoring(cell["scoring"]),
               digits           |-> DigitsOf[cell["scoring"]["access_count"]],
               body             |-> BodyBytes(cell),
               owner_id         |-> cell["identity"]["owner_id"],
               created_by       |-> cell["identity"]["created_by"],
               policy           |-> cell["access_policy"]]
  BY <1>1, <1>2, <1>4, <1>5, FieldNames DEF Flat
<1> QED
  BY <1>6, <1>7

-----------------------------------------------------------------------------
(* The theorems.                                                            *)

LEMMA StepAsFlatCell ==
    ASSUME TypeOK
    PROVE  /\ GetMemory => Flat(cell)' = Boosted(Flat(cell), now, Flat(cell)'.digits)
           /\ \A body \in Requests :
                 /\ Refused(cell, Dumped(body), now)
                       <=> UpdateRefused(Flat(cell), FlatPatch(body, cell), now)
                 /\ UpdateMemory(body) =>
                       Flat(cell)' = Updated(Flat(cell), FlatPatch(body, cell), now)
           /\ Refused(cell, StatusUpdate(Evaluated(Flat(cell), now)), now)
                 <=> UpdateRefused(Flat(cell), FlatStatus(cell), now)
           /\ RunLifecycle => Flat(cell)' = Updated(Flat(cell), FlatStatus(cell), now)
           /\ DeleteMemory => Flat(cell)' = MarkedDeleted(Flat(cell), now)
<1>1. WellFormed(cell) /\ now \in Time
  BY DEF TypeOK
<1>2. ASSUME NEW body \in Requests, UpdateMemory(body)
      PROVE  Flat(cell)' = Updated(Flat(cell), FlatPatch(body, cell), now)
  <2>1. cell' = UpdatedCell(cell, Dumped(body), now)
    BY <1>2 DEF UpdateMemory, Update
  <2>2. Flat(cell)' = Flat(UpdatedCell(cell, Dumped(body), now))
    BY <2>1
  <2> QED
    BY <1>1, <2>2, FlatOfPatch
<1> DEFINE s == Evaluated(Flat(cell), now)
<1>3. s \in Status
  BY EvaluatedTyped
<1>4. FlatStatus(cell) = [EmptyPatch EXCEPT !.status = s]
  BY DEF FlatStatus
<1>5. Refused(cell, StatusUpdate(s), now) <=> UpdateRefused(Flat(cell), FlatStatus(cell), now)
  <2> HIDE DEF s
  <2> QED
    BY <1>1, <1>3, <1>4, StatusRefusedAsFlat
<1>6. ASSUME RunLifecycle
      PROVE  Flat(cell)' = Updated(Flat(cell), FlatStatus(cell), now)
  <2>1. cell' = UpdatedCell(cell, StatusUpdate(s), now)
    BY <1>6 DEF RunLifecycle, Update
  <2>2. Flat(cell)' = Flat(UpdatedCell(cell, StatusUpdate(s), now))
    BY <2>1
  <2> HIDE DEF s
  <2> QED
    BY <1>1, <1>3, <1>4, <2>2, FlatOfStatus
<1>7. \A body \in Requests : Refused(cell, Dumped(body), now)
                            <=> UpdateRefused(Flat(cell), FlatPatch(body, cell), now)
  BY <1>1, RefusedAsFlat
<1> QED
  BY <1>2, <1>5, <1>6, <1>7, FlatOfBoost, FlatOfDelete

\* The flat cell of MemoryCells is exact, and refuses what the nested one
\* refuses, for all bodies, sizes and scores.
THEOREM FlatCellIsExact == Spec => AsFlatCell
<1>1. TypeOK /\ [Next]_vars =>
    [/\ GetMemory => Flat(cell)' = Boosted(Flat(cell), now, Flat(cell)'.digits)
     /\ \A body \in Requests :
           /\ Refused(cell, Dumped(body), now)
                 <=> UpdateRefused(Flat(cell), FlatPatch(body, cell), now)
           /\ UpdateMemory(body) =>
                 Flat(cell)' = Updated(Flat(cell), FlatPatch(body, cell), now)
     /\ Refused(cell, StatusUpdate(Evaluated(Flat(cell), now)), now)
           <=> UpdateRefused(Flat(cell), FlatStatus(cell), now)
     /\ RunLifecycle => Flat(cell)' = Updated(Flat(cell), FlatStatus(cell), now)
     /\ DeleteMemory => Flat(cell)' = MarkedDeleted(Flat(cell), now)]_vars
  BY StepAsFlatCell
<1> QED
  BY <1>1, TypeCorrect, PTL DEF Spec, AsFlatCell

\* The inductive invariant behind the size: a cell that was archived has been
\* updated, so the stamp of its deletion replaces one of the same size.
ArchivedWasUpdated ==
    cell.lifecycle.status = "archived" => cell.lifecycle.last_updated_at # Null

SizeInv == TypeOK /\ ArchivedWasUpdated /\ OversizeOnlyByReads

\* The size of a flat cell without what reads add to it.
LEMMA SizeWithoutReads ==
    ASSUME NEW c
    PROVE  CellSize(WithoutReads(Flat(c)))
              = BodyBytes(c) + 1 + StatusBytes(c["lifecycle"]["status"]) + 4
                + StampBytes(c["lifecycle"]["last_updated_at"])
BY DEF CellSize, Flat, StampBytes, WithoutReads

LEMMA SizeBytes ==
    ASSUME NEW c, WellFormed(c)
    PROVE  /\ BodyBytes(c) \in Nat
           /\ StatusBytes(c["lifecycle"]["status"]) \in Nat
           /\ \A stamp : StampBytes(stamp) \in {4, 29}
BY BodyBytesNat DEF StatusBytes, StampBytes

\* A cell that fits fits without what reads add to it.
LEMMA FitsWithoutReads ==
    ASSUME NEW c, WellFormed(c), ~TooLarge(Flat(c))
    PROVE  CellSize(WithoutReads(Flat(c))) <= MaxCellSize
<1> DEFINE digits == DigitsOf[c["scoring"]["access_count"]]
           status == StatusBytes(c["lifecycle"]["status"])
           access == StampBytes(c["lifecycle"]["last_accessed_at"])
           stamp == StampBytes(c["lifecycle"]["last_updated_at"])
<1>1. CellSize(Flat(c)) = BodyBytes(c) + digits + status + access + stamp
  BY DEF CellSize, Flat
<1>2. access \in {4, 29} /\ stamp \in {4, 29} /\ status \in Nat /\ BodyBytes(c) \in Nat
  BY SizeBytes
<1>3. ~(CellSize(Flat(c)) > MaxCellSize)
  BY DEF TooLarge
<1>4. digits \in Nat /\ digits >= 1
  BY CountDigits
<1>5. CellSize(WithoutReads(Flat(c))) = BodyBytes(c) + 1 + status + 4 + stamp
  BY SizeWithoutReads
<1> HIDE DEF digits, status, access, stamp
<1> QED
  BY <1>1, <1>2, <1>3, <1>4, <1>5, DataAssumption

\* A measured write leaves a cell that fits, and stamped.
LEMMA UpdateFits ==
    ASSUME SizeInv, NEW updates, Mergeable(updates), Update(updates)
    PROVE  SizeInv'
<1>1. TypeOK'
  BY UpdateTyped DEF SizeInv
<1>2. cell' = Stamped(ApplyUpdates(cell, updates), now) /\ ~TooLarge(Flat(cell'))
  BY DEF Update, UpdatedCell, Refused
<1>3. WellFormed(ApplyUpdates(cell, updates))
  BY MergeTyped DEF SizeInv, TypeOK
<1>4. cell'["lifecycle"]["last_updated_at"] = now
  BY <1>2, <1>3, ObjectNames, FieldNames DEF Stamped, WellFormed
<1>5. now # Null
  BY NullAssumption DEF SizeInv, TypeOK, Time
<1>6. OversizeOnlyByReads'
  BY <1>1, <1>2, FitsWithoutReads DEF OversizeOnlyByReads, TypeOK
<1> QED
  BY <1>1, <1>4, <1>5, <1>6 DEF SizeInv, ArchivedWasUpdated

LEMMA InitFits == Init => SizeInv
<1> SUFFICES ASSUME Init PROVE SizeInv
  OBVIOUS
<1>1. TypeOK
  BY InitTyped
<1>2. ~TooLarge(Flat(cell))
  BY DEF Init
<1>3. OversizeOnlyByReads
  BY <1>1, <1>2, FitsWithoutReads DEF OversizeOnlyByReads, TypeOK
<1>4. cell["lifecycle"]["status"] = "active"
  BY ObjectNames DEF Init, Created
<1> QED
  BY <1>1, <1>3, <1>4 DEF SizeInv, ArchivedWasUpdated

LEMMA NextFits == SizeInv /\ [Next]_vars => SizeInv'
<1> SUFFICES ASSUME SizeInv, [Next]_vars PROVE SizeInv'
  OBVIOUS
<1>0. TypeOK /\ TypeOK'
  BY NextTyped DEF SizeInv
<1>1. CASE GetMemory
  <2>1. Flat(cell)' = Boosted(Flat(cell), now, Flat(cell)'.digits)
    BY <1>0, <1>1, FlatOfBoost
  <2>2. WithoutReads(Flat(cell))' = WithoutReads(Flat(cell))
    BY <2>1 DEF Boosted, Flat, WithoutReads
  <2>3. /\ cell'["lifecycle"]["status"] = cell["lifecycle"]["status"]
        /\ cell'["lifecycle"]["last_updated_at"] = cell["lifecycle"]["last_updated_at"]
    BY <1>0, <1>1, ObjectNames, FieldNames DEF GetMemory, TypeOK, WellFormed
  <2> QED
    BY <1>0, <2>2, <2>3 DEF SizeInv, OversizeOnlyByReads, ArchivedWasUpdated
<1>2. ASSUME NEW body \in Requests, UpdateMemory(body)
      PROVE  SizeInv'
  BY <1>2, DumpedMergeable, UpdateFits DEF UpdateMemory
<1>3. CASE RunLifecycle
  BY <1>0, <1>3, EvaluatedTyped, StatusMergeable, UpdateFits DEF RunLifecycle
<1>4. CASE DeleteMemory
  <2>1. Flat(cell)' = MarkedDeleted(Flat(cell), now)
    BY <1>0, <1>4, FlatOfDelete
  <2>2. /\ cell'["lifecycle"]["status"] = "deleted"
        /\ cell'["lifecycle"]["last_updated_at"] = now
        /\ BodyBytes(cell') = BodyBytes(cell)
    BY <2>1, FlatIsFlat, FlatValues, MarkedDeletedFields
  <2>3. cell["lifecycle"]["status"] = "archived" /\ cell["lifecycle"]["last_updated_at"] # Null
    BY <1>4 DEF DeleteMemory, SizeInv, ArchivedWasUpdated
  <2>4. now # Null
    BY <1>0, NullAssumption DEF TypeOK, Time
  <2>5. CellSize(WithoutReads(Flat(cell))) = BodyBytes(cell) + 1 + 8 + 4 + 29
    BY <2>3, SizeWithoutReads DEF StatusBytes, StampBytes
  <2>6. CellSize(WithoutReads(Flat(cell'))) = BodyBytes(cell) + 1 + 7 + 4 + 29
    BY <2>2, <2>4, SizeWithoutReads DEF StatusBytes, StampBytes
  <2>7. BodyBytes(cell) \in Nat
    BY <1>0, BodyBytesNat DEF TypeOK
  <2>8. OversizeOnlyByReads'
    BY <2>5, <2>6, <2>7, DataAssumption DEF SizeInv, OversizeOnlyByReads
  <2> QED
    BY <1>0, <2>2, <2>8 DEF SizeInv, ArchivedWasUpdated
<1>5. CASE Tick
  BY <1>0, <1>5 DEF Tick, SizeInv, ArchivedWasUpdated, OversizeOnlyByReads
<1>6. CASE UNCHANGED vars
  BY <1>0, <1>6 DEF vars, SizeInv, ArchivedWasUpdated, OversizeOnlyByReads
<1> QED
  BY <1>1, <1>2, <1>3, <1>4, <1>5, <1>6 DEF Next

\* Only the stamp and the digits that reads add take a cell past its maximum
\* size, whatever the sizes of texts, metadata, counts and the maximum.
THEOREM SizeExceededOnlyByReads == Spec => []OversizeOnlyByReads
<1>1. SizeInv => OversizeOnlyByReads
  BY DEF SizeInv
<1> QED
  BY <1>1, InitFits, NextFits, PTL DEF Spec

\* The written cell is the merged one in all but the stamp.
LEMMA WrittenFields ==
    ASSUME NEW c, WellFormed(c), NEW t
    PROVE  /\ \A o \in Objects \ {"lifecycle"} : Stamped(c, t)[o] = c[o]
           /\ \A f \in Fields("lifecycle") \ {"last_updated_at"} :
                 Stamped(c, t)["lifecycle"][f] = c["lifecycle"][f]
BY ObjectNames, FieldNames DEF Stamped, WellFormed

\* The metadata a PATCH leaves is what was there, or that merged with what the
\* body sends.
LEMMA MetadataMerged ==
    ASSUME NEW c, WellFormed(c), NEW body \in Requests
    PROVE  LET old == c["content"]["metadata"]
               new == ApplyUpdates(c, Dumped(body))["content"]["metadata"]
           IN  \/ new = old
               \/ \E sent :
                     /\ new = MergedMetadata(old, sent)
                     /\ \A k \in DOMAIN sent :
                           NamesKey(body, k) /\ sent[k] = body["content"]["metadata"][k]
<1> DEFINE u == Dumped(body)
           old == c["content"]["metadata"]
           m == ApplyUpdates(c, u)["content"]["metadata"]
<1>1. "content" \in Objects /\ "metadata" \in Fields("content")
      /\ "metadata" \in UpdateFields("content")
  BY ObjectNames, FieldNames, UpdateFieldNames
<1>2. ASSUME "content" \notin DOMAIN body
      PROVE  m = old
  BY <1>1, <1>2, DumpedMergeable, ObjectKept
<1>3. ASSUME "content" \in DOMAIN body
      PROVE  \E sent : /\ m = MergedMetadata(old, sent)
                       /\ \A k \in DOMAIN sent :
                             NamesKey(body, k) /\ sent[k] = body["content"]["metadata"][k]
  <2> DEFINE parsed == Parsed("content", body["content"])
  <2>1. u["content"] = WithoutNone(parsed) /\ "content" \in DOMAIN u
    BY <1>3 DEF Dumped
  <2>2. ApplyUpdates(c, u)["content"] = MergedObject("content", c["content"], u["content"])
    BY <1>1, <2>1 DEF ApplyUpdates, WellFormed, ImmutablePaths
  <2>3. "metadata" \in DOMAIN c["content"]
    BY <1>1 DEF WellFormed
  <2>4. "metadata" \in DOMAIN parsed /\ parsed["metadata"] # Null
    BY <1>1, <1>3, ObjectNames, ParsedTyped, AbsentAssumption DEF Nullable
  <2>5. "metadata" \in DOMAIN u["content"] /\ u["content"]["metadata"] = parsed["metadata"]
    BY <2>1, <2>4 DEF WithoutNone
  <2>6. m = MergedMetadata(old, parsed["metadata"])
    BY <2>2, <2>3, <2>5 DEF MergedObject, ImmutablePaths
  <2>7. ASSUME NEW k \in DOMAIN parsed["metadata"]
        PROVE  NamesKey(body, k) /\ parsed["metadata"][k] = body["content"]["metadata"][k]
    <3>1. "metadata" \in DOMAIN body["content"]
      <4>1. SUFFICES ASSUME "metadata" \notin DOMAIN body["content"] PROVE FALSE
        OBVIOUS
      <4>2. parsed["metadata"] = Default["content"]["metadata"]
        BY <1>1, <4>1 DEF Parsed
      <4>3. DOMAIN Default["content"]["metadata"] = {}
        BY DEF Default
      <4> QED
        BY <2>7, <4>2, <4>3
    <3>2. parsed["metadata"] = body["content"]["metadata"]
      BY <1>1, <3>1 DEF Parsed
    <3> QED
      BY <1>3, <2>7, <3>1, <3>2 DEF NamesKey
  <2> HIDE DEF m, parsed
  <2> QED
    BY <2>6, <2>7
<1> QED
  BY <1>2, <1>3

\* A key the sent metadata does not name keeps its value, and no key is lost.
LEMMA KeyMerged ==
    ASSUME NEW old, NEW sent, NEW k \in DOMAIN old
    PROVE  /\ k \in DOMAIN MergedMetadata(old, sent)
           /\ k \notin DOMAIN sent => MergedMetadata(old, sent)[k] = old[k]
BY DEF MergedMetadata

\* A key of a dictionary keeps its value, unless the sent dictionary names it.
LEMMA NestedKeyMerged ==
    ASSUME NEW old \in Metadata, NEW sent, NEW k \in DOMAIN old, k \in DOMAIN sent,
           old[k] \in NestedDicts, sent[k] \in NestedDicts,
           NEW l \in DOMAIN old[k], l \notin DOMAIN sent[k]
    PROVE  LET new == MergedMetadata(old, sent)[k] IN
           new \in NestedDicts /\ l \in DOMAIN new /\ new[l] = old[k][l]
<1>1. MergedMetadata(old, sent)[k] = MergedDict(old[k], sent[k])
  BY DEF MergedMetadata
<1>2. MergedDict(old[k], sent[k]) \in NestedDicts
  BY MergedDictTyped
<1>3. l \in DOMAIN MergedDict(old[k], sent[k]) /\ MergedDict(old[k], sent[k])[l] = old[k][l]
  BY DEF MergedDict
<1> QED
  BY <1>1, <1>2, <1>3

\* A metadata key survives the merge, with its value unless the body names it,
\* and so do the keys of a dictionary in the metadata.
LEMMA MetadataKept ==
    ASSUME NEW c, WellFormed(c), NEW body \in Requests,
           NEW k \in DOMAIN c["content"]["metadata"]
    PROVE  LET old == c["content"]["metadata"]
               m == ApplyUpdates(c, Dumped(body))["content"]["metadata"]
           IN  /\ k \in DOMAIN m
               /\ ~NamesKey(body, k) => m[k] = old[k]
               /\ old[k] \in NestedDicts =>
                     \A l \in DOMAIN old[k] :
                        ~NamesNestedKey(body, k, l) =>
                           /\ m[k] \in NestedDicts
                           /\ l \in DOMAIN m[k]
                           /\ m[k][l] = old[k][l]
<1> DEFINE old == c["content"]["metadata"]
           m == ApplyUpdates(c, Dumped(body))["content"]["metadata"]
<1>1. CASE m = old
  BY <1>1
<1>2. ASSUME NEW sent, m = MergedMetadata(old, sent),
             \A j \in DOMAIN sent :
                NamesKey(body, j) /\ sent[j] = body["content"]["metadata"][j]
      PROVE  /\ k \in DOMAIN m
             /\ ~NamesKey(body, k) => m[k] = old[k]
             /\ old[k] \in NestedDicts =>
                   \A l \in DOMAIN old[k] :
                      ~NamesNestedKey(body, k, l) =>
                         m[k] \in NestedDicts /\ l \in DOMAIN m[k] /\ m[k][l] = old[k][l]
  <2>1. old \in Metadata
    BY ObjectNames, FieldNames DEF WellFormed, Values
  <2> HIDE DEF m, old
  <2>2. k \in DOMAIN old
    BY DEF old
  <2>3. k \in DOMAIN m /\ (k \notin DOMAIN sent => m[k] = old[k])
    BY <1>2, <2>2, KeyMerged
  <2>4. ASSUME old[k] \in NestedDicts, NEW l \in DOMAIN old[k], ~NamesNestedKey(body, k, l)
        PROVE  m[k] \in NestedDicts /\ l \in DOMAIN m[k] /\ m[k][l] = old[k][l]
    <3>1. CASE k \notin DOMAIN sent
      BY <2>3, <2>4, <3>1
    <3>2. CASE k \in DOMAIN sent
      <4>1. sent[k] \in NestedDicts /\ l \notin DOMAIN sent[k]
        BY <1>2, <2>4, <3>2 DEF NamesNestedKey
      <4> QED
        BY <1>2, <2>1, <2>2, <2>4, <3>2, <4>1, NestedKeyMerged
    <3> QED
      BY <3>1, <3>2
  <2>5. ~NamesKey(body, k) => m[k] = old[k]
    BY <1>2, <2>3
  <2> QED
    BY <2>3, <2>4, <2>5
<1> QED
  BY <1>1, <1>2, MetadataMerged

LEMMA StepKeeps ==
    ASSUME TypeOK, NEW body \in Requests, UpdateMemory(body)
    PROVE  /\ \A o \in Objects \ {"lifecycle"} : o \notin DOMAIN body => cell'[o] = cell[o]
           /\ \A o \in {"lifecycle", "provenance"} : \A f \in Fields(o) :
                  /\ f # "last_updated_at"
                  /\ o \notin DOMAIN body \/ ~Sends(body, o, f)
                  => cell'[o][f] = cell[o][f]
           /\ \A k \in DOMAIN cell.content.metadata :
                  /\ k \in DOMAIN cell'.content.metadata
                  /\ ~NamesKey(body, k)
                     => cell'.content.metadata[k] = cell.content.metadata[k]
                  /\ cell.content.metadata[k] \in NestedDicts =>
                        \A l \in DOMAIN cell.content.metadata[k] :
                           ~NamesNestedKey(body, k, l) =>
                              /\ cell'.content.metadata[k] \in NestedDicts
                              /\ l \in DOMAIN cell'.content.metadata[k]
                              /\ cell'.content.metadata[k][l]
                                    = cell.content.metadata[k][l]
<1> DEFINE d == ApplyUpdates(cell, Dumped(body))
<1>0. WellFormed(cell) /\ WellFormed(d) /\ DOMAIN Dumped(body) = DOMAIN body
  BY DumpedMergeable, MergeTyped DEF TypeOK
<1>1. cell' = Stamped(d, now)
  BY DEF UpdateMemory, Update, UpdatedCell
<1> HIDE DEF d
<1>2. /\ \A o \in Objects \ {"lifecycle"} : cell'[o] = d[o]
      /\ \A f \in Fields("lifecycle") \ {"last_updated_at"} : cell'["lifecycle"][f] = d["lifecycle"][f]
  BY <1>0, <1>1, WrittenFields
<1>3. ASSUME NEW o \in Objects \ {"lifecycle"}, o \notin DOMAIN body
      PROVE  cell'[o] = cell[o]
  BY <1>0, <1>2, <1>3, ObjectKept DEF d
<1>4. ASSUME NEW o \in {"lifecycle", "provenance"}, NEW f \in Fields(o),
             f # "last_updated_at", o \notin DOMAIN body \/ ~Sends(body, o, f)
      PROVE  cell'[o][f] = cell[o][f]
  <2>1. cell'[o][f] = d[o][f] /\ o \in Objects
    BY <1>2, <1>4, ObjectNames
  <2>2. CASE o \notin DOMAIN body
    BY <1>0, <2>1, <2>2, ObjectKept DEF d
  <2>3. CASE o \in DOMAIN body /\ f \notin UpdateFields(o)
    <3>1. o = "lifecycle" /\ f = "created_at"
      BY <2>3, FieldNames, UpdateFieldNames
    <3> QED
      BY <1>0, <2>1, <3>1, CreationKept DEF d
  <2>4. CASE o \in DOMAIN body /\ f \in UpdateFields(o)
    <3>1. Parsed(o, body[o])[f] = Null
      <4>1. CASE f \in DOMAIN body[o]
        BY <1>4, <2>4, <4>1 DEF Sends, Parsed
      <4>2. CASE f \notin DOMAIN body[o]
        <5>1. Default[o][f] = Null
          BY <2>4, UpdateFieldNames, FieldNames DEF Default
        <5> QED
          BY <2>4, <4>2, <5>1 DEF Parsed
      <4> QED
        BY <4>1, <4>2
    <3>2. f # "metadata"
      BY FieldNames
    <3> QED
      BY <1>0, <2>1, <2>4, <3>1, <3>2, FieldMerged DEF d, Or
  <2> QED
    BY <2>2, <2>3, <2>4
<1>5. ASSUME NEW k \in DOMAIN cell["content"]["metadata"]
      PROVE  /\ k \in DOMAIN cell'["content"]["metadata"]
             /\ ~NamesKey(body, k)
                   => cell'["content"]["metadata"][k] = cell["content"]["metadata"][k]
             /\ cell["content"]["metadata"][k] \in NestedDicts =>
                   \A l \in DOMAIN cell["content"]["metadata"][k] :
                      ~NamesNestedKey(body, k, l) =>
                         /\ cell'["content"]["metadata"][k] \in NestedDicts
                         /\ l \in DOMAIN cell'["content"]["metadata"][k]
                         /\ cell'["content"]["metadata"][k][l]
                               = cell["content"]["metadata"][k][l]
  <2>1. cell'["content"] = d["content"]
    BY <1>2, ObjectNames
  <2> QED
    BY <1>0, <2>1, MetadataKept DEF d
<1> QED
  BY <1>3, <1>4, <1>5

\* A PATCH keeps what it does not send, for all bodies validation accepts.
THEOREM UnsentIsKept == Spec => KeepsWhatWasNotSent
<1>1. TypeOK /\ [Next]_vars =>
        [\A body \in Requests :
         UpdateMemory(body) =>
            /\ \A o \in Objects \ {"lifecycle"} : o \notin DOMAIN body => cell'[o] = cell[o]
            /\ \A o \in {"lifecycle", "provenance"} : \A f \in Fields(o) :
                  /\ f # "last_updated_at"
                  /\ o \notin DOMAIN body \/ ~Sends(body, o, f)
                  => cell'[o][f] = cell[o][f]
            /\ \A k \in DOMAIN cell.content.metadata :
                  /\ k \in DOMAIN cell'.content.metadata
                  /\ ~NamesKey(body, k)
                     => cell'.content.metadata[k] = cell.content.metadata[k]
                  /\ cell.content.metadata[k] \in NestedDicts =>
                        \A l \in DOMAIN cell.content.metadata[k] :
                           ~NamesNestedKey(body, k, l) =>
                              /\ cell'.content.metadata[k] \in NestedDicts
                              /\ l \in DOMAIN cell'.content.metadata[k]
                              /\ cell'.content.metadata[k][l]
                                    = cell.content.metadata[k][l]]_vars
  BY StepKeeps
<1> QED
  BY <1>1, TypeCorrect, PTL DEF Spec, KeepsWhatWasNotSent
=============================================================================
