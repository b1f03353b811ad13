-------------------------- MODULE AmpClusterProofs --------------------------
(* What holds of any number of processes over one store, however long their *)
(* calls take and wherever they stop; and, for two, of the time at which    *)
(* they purge.                                                              *)
EXTENDS AmpCluster, SequenceTheorems, FiniteSetTheorems, TLAPS

-----------------------------------------------------------------------------
(* The cell rules keep the types, and what they leave in status and stamps. *)

LEMMA TimeType == Time \subseteq Nat /\ \A t \in Time : t \in Int
BY TimeAssumption DEF Time

LEMMA OrType ==
    ASSUME NEW S, NEW value \in Optional(S), NEW default, default \in S
    PROVE  Or(value, default) \in S
BY DEF Optional, Or

\* An optional field stays optional.
LEMMA OrOptionalType ==
    ASSUME NEW S, NEW value \in Optional(S), NEW default \in Optional(S)
    PROVE  Or(value, default) \in Optional(S)
BY DEF Optional, Or

LEMMA NewCellType ==
    ASSUME NEW agent \in Agents, NEW owner \in Agents, NEW lifetime \in Lifetimes,
           NEW body \in Bodies, NEW policy \in Policies, NEW t \in Time
    PROVE  NewCell(agent, owner, lifetime, body, policy, t) \in Cell
BY DataAssumption DEF NewCell, Cell, Optional, Status, Digits

LEMMA BoostedType ==
    ASSUME NEW cell \in Cell, NEW t \in Time, NEW digits \in Digits
    PROVE  /\ Boosted(cell, t, digits) \in Cell
           /\ Boosted(cell, t, digits).status = cell.status
           /\ Boosted(cell, t, digits).last_updated_at = cell.last_updated_at
BY DEF Boosted, Cell, Optional

LEMMA MarkedDeletedType ==
    ASSUME NEW cell \in Cell, NEW t \in Time
    PROVE  /\ MarkedDeleted(cell, t) \in Cell
           /\ MarkedDeleted(cell, t).status = "deleted"
           /\ MarkedDeleted(cell, t).last_updated_at = t
BY DEF MarkedDeleted, Cell, Optional, Status

\* A PATCH leaves a cell, with the status it asked for or the one it had.
LEMMA UpdatedType ==
    ASSUME NEW cell \in Cell, NEW patch \in Patch, NEW t \in Time
    PROVE  /\ Updated(cell, patch, t) \in Cell
           /\ Updated(cell, patch, t).status = Or(patch.status, cell.status)
           /\ Updated(cell, patch, t).last_updated_at = t
<1> DEFINE s == Or(patch.status, cell.status)
           l == Or(patch.lifetime, cell.lifetime)
           d == Or(patch.digits, cell.digits)
           b == Or(patch.body, cell.body)
           a == Or(patch.last_accessed_at, cell.last_accessed_at)
           p == Or(patch.policy, cell.policy)
<1>1. s \in Status /\ l \in Int /\ d \in Digits /\ b \in Nat /\ p \in AccessPolicy
  BY OrType DEF Cell, Patch
<1>2. a \in Optional(Time)
  BY OrOptionalType DEF Cell, Patch
<1>3. t \in Optional(Time)
  BY DEF Optional
<1>4. Updated(cell, patch, t)
        = [created_at |-> cell.created_at, last_accessed_at |-> a, last_updated_at |-> t,
           status |-> s, lifetime |-> l, digits |-> d, body |-> b,
           owner_id |-> cell.owner_id,
           created_by |-> cell.created_by, policy |-> p]
  <2> HIDE DEF s, l, d, b, a, p
  <2>1. Merged(cell, patch) = [cell EXCEPT !.status = s, !.lifetime = l,
                                           !.digits = d, !.body = b,
                                           !.last_accessed_at = a, !.policy = p]
    BY DEF Merged, s, l, d, b, a, p
  <2>2. cell = [created_at |-> cell.created_at, last_accessed_at |-> cell.last_accessed_at,
                last_updated_at |-> cell.last_updated_at, status |-> cell.status,
                lifetime |-> cell.lifetime, digits |-> cell.digits,
                body |-> cell.body, owner_id |-> cell.owner_id,
                created_by |-> cell.created_by, policy |-> cell.policy]
    BY DEF Cell
  <2>3. Merged(cell, patch)
          = [created_at |-> cell.created_at, last_accessed_at |-> a,
             last_updated_at |-> cell.last_updated_at, status |-> s, lifetime |-> l,
             digits |-> d, body |-> b, owner_id |-> cell.owner_id, created_by |-> cell.created_by,
             policy |-> p]
    BY <2>1, <2>2
  <2> QED
    BY <2>3 DEF Updated
<1> HIDE DEF s, l, d, b, a, p
<1>5. Updated(cell, patch, t) \in Cell
  BY <1>1, <1>2, <1>3, <1>4 DEF Cell
<1> QED
  BY <1>4, <1>5 DEF s

-----------------------------------------------------------------------------
(* Calls.                                                                   *)

LEMMA CallTypes ==
    /\ \A c \in CellId : GetCall(c) \in Call /\ MarkDeletedCall(c) \in Call
    /\ \A c \in CellId, patch \in Patch : UpdateCall(c, patch) \in Call
    /\ \A c \in CellId, cell \in Cell : DecayCall(c, cell) \in Call /\ PurgeCall(c, cell) \in Call
    /\ ListCall \in Call
BY DEF Call, UpdateCall, DecayCall, PurgeCall

LEMMA EmptyPatchType == EmptyPatch \in Patch
BY DEF EmptyPatch, Patch, Optional

LEMMA SetStatusToType ==
    ASSUME NEW status \in Status
    PROVE  SetStatusTo(status) \in Patch
BY DEF SetStatusTo, EmptyPatch, Patch, Optional

\* Every call but a listing is about a cell.
LEMMA CallCell ==
    ASSUME NEW call \in Call, call # ListCall
    PROVE  call.c \in CellId
BY DEF Call, GetCall, MarkDeletedCall

LEMMA ListCallOp ==
    ASSUME NEW call \in Call
    PROVE  call.op = "list_all" <=> call = ListCall
BY DEF Call, GetCall, MarkDeletedCall, ListCall

LEMMA EvaluatedType ==
    ASSUME NEW cell \in Cell
    PROVE  Evaluated(cell, now) \in Status
<1> DEFINE reaches == ScoreReachesThreshold(cell, now)
           old == StaleAge(cell, now) >= ArchiveStaleDays
<1> HIDE DEF reaches, old
<1>1. Evaluated(cell, now) =
        CASE cell.status = "stale" /\ reaches -> "active"
          [] cell.status = "stale" /\ ~reaches /\ old -> "archived"
          [] cell.status = "active" /\ ~reaches -> "stale"
          [] OTHER -> cell.status
  BY DEF Evaluated, reaches, old
<1>2. cell.status \in Status
  BY DEF Cell
<1>3. CASE reaches
  BY <1>1, <1>2, <1>3 DEF Status
<1>4. CASE ~reaches /\ old
  BY <1>1, <1>2, <1>4 DEF Status
<1>5. CASE ~reaches /\ ~old
  BY <1>1, <1>2, <1>5 DEF Status
<1> QED
  BY <1>3, <1>4, <1>5

\* What an update or a decay sends is a PATCH.
LEMMA PatchOfType ==
    ASSUME NEW call \in Call, call.op \in {"update", "decay"}
    PROVE  PatchOf(call) \in Patch
<1>1. CASE call.op = "decay"
  <2>1. call.snapshot \in Cell
    BY <1>1 DEF Call, GetCall, MarkDeletedCall, ListCall
  <2> QED
    BY <1>1, <2>1, EvaluatedType, SetStatusToType DEF PatchOf
<1>2. CASE call.op = "update"
  <2>1. call.patch \in Patch
    BY <1>2 DEF Call, GetCall, MarkDeletedCall, ListCall
  <2> QED
    BY <1>2, <2>1 DEF PatchOf
<1> QED
  BY <1>1, <1>2

\* The document a call prepares from a cell is a cell.
LEMMA NewDocumentType ==
    ASSUME NEW call \in Call, store[call.c] \in Cell, now \in Time, NEW digits \in Digits
    PROVE  NewDocument(call, digits) \in Cell
<1>1. CASE call.op = "get"
  BY <1>1, BoostedType DEF NewDocument
<1>2. CASE call.op \in {"update", "decay"}
  BY <1>2, PatchOfType, UpdatedType DEF NewDocument
<1>3. CASE call.op = "mark_deleted"
  BY <1>3, MarkedDeletedType DEF NewDocument
<1>4. CASE call.op \notin {"get", "update", "decay", "mark_deleted"}
  BY <1>4 DEF NewDocument
<1> QED
  BY <1>1, <1>2, <1>3, <1>4

\* A listing of cells is a finite sequence of them.
LEMMA ListingType ==
    ASSUME NEW S, S \subseteq CellId, NEW order \in Listings(S)
    PROVE  /\ \E n \in Nat : DOMAIN order = 1..n
           /\ \A i \in DOMAIN order : order[i] \in S
<1>1. Cardinality(S) \in Nat
  BY FiniteAssumption, FS_Subset, FS_CardinalityType
<1> QED
  BY <1>1 DEF Listings

-----------------------------------------------------------------------------
(* The types.                                                               *)

LEMMA SinceType ==
    ASSUME TypeOK
    PROVE  SinceAfter(store') \in [CellId -> Time]
BY DEF TypeOK, SinceAfter

\* A handler that begins.
LEMMA BeginType ==
    ASSUME TypeOK, NEW p \in Processes, NEW todo \in Seq(Call), Begin(p, todo)
    PROVE  TypeOK'
<1>1. calls' \in [Processes -> Seq(Call)]
  BY DEF TypeOK, Begin
<1>2. hand[p] = Nothing
  BY DEF TypeOK, Begin
<1>3. \A q \in Processes : hand'[q] # Nothing => ~Idle(q)' /\ Head(calls'[q]) # ListCall
  BY <1>2 DEF TypeOK, Begin, Idle
<1> QED
  BY <1>1, <1>3 DEF TypeOK, Begin

\* A handler of one storage call.
LEMMA BeginOneType ==
    ASSUME TypeOK, NEW p \in Processes, NEW call \in Call, Begin(p, <<call>>)
    PROVE  TypeOK'
<1>1. <<call>> \in Seq(Call)
  OBVIOUS
<1> QED
  BY <1>1, BeginType

LEMMA RequestType ==
    ASSUME TypeOK, NEW p \in Processes, NEW agent \in Agents, NEW c \in CellId,
           Request(p, agent, c)
    PROVE  TypeOK'
<1>1. CASE Create(p, agent, c)
  <2>1. PICK owner \in Agents, lifetime \in Lifetimes, body \in Bodies, policy \in Policies :
          store' = [store EXCEPT ![c] = NewCell(agent, owner, lifetime, body, policy, now)]
    BY <1>1 DEF Create
  <2>2. NewCell(agent, owner, lifetime, body, policy, now) \in Cell
    BY NewCellType DEF TypeOK
  <2>3. store' \in [CellId -> Cell \cup {NoCell}]
    BY <2>1, <2>2 DEF TypeOK
  <2> QED
    BY <1>1, <2>3, SinceType DEF TypeOK, Create, Idle
<1>2. CASE StartGet(p, agent, c)
  BY <1>2, BeginOneType, CallTypes DEF StartGet
<1>3. CASE StartUpdate(p, agent, c)
  <2>1. PICK patch \in Patches : Begin(p, <<UpdateCall(c, patch)>>)
    BY <1>3 DEF StartUpdate
  <2>2. UpdateCall(c, patch) \in Call
    BY CallTypes, ClusterAssumption
  <2> QED
    BY <2>1, <2>2, BeginOneType
<1>4. CASE StartDelete(p, agent, c)
  BY <1>4, BeginOneType, CallTypes DEF StartDelete
<1>5. CASE StartForget(p, agent, c)
  <2>1. SetStatusTo("archived") \in Patch
    BY SetStatusToType DEF Status
  <2>2. <<UpdateCall(c, SetStatusTo("archived")), MarkDeletedCall(c)>> \in Seq(Call)
    BY <2>1, CallTypes
  <2> QED
    BY <1>5, <2>2, BeginType DEF StartForget
<1> QED
  BY <1>1, <1>2, <1>3, <1>4, <1>5 DEF Request

LEMMA StartPassType ==
    ASSUME TypeOK, NEW p \in Processes, StartPass(p)
    PROVE  TypeOK'
<1> DEFINE S == {c \in CellId : StatusIn(store, c) \in {"active", "stale"}}
           Decays(order) == [i \in DOMAIN order |-> DecayCall(order[i], store[order[i]])]
           last == IF PurgeRetention THEN <<ListCall>> ELSE <<>>
<1>1. PICK order \in Listings(S) : Begin(p, Decays(order) \o last)
  BY DEF StartPass
<1>2. PICK n \in Nat : DOMAIN order = 1..n
  BY ListingType
<1>3. \A i \in 1..n : DecayCall(order[i], store[order[i]]) \in Call
  <2> TAKE i \in 1..n
  <2>1. order[i] \in S
    BY <1>2, ListingType
  <2>2. store[order[i]] \in Cell
    BY <2>1 DEF TypeOK, StatusIn
  <2> QED
    BY <2>1, <2>2, CallTypes
<1>4. Decays(order) \in Seq(Call)
  BY <1>2, <1>3
<1>5. last \in Seq(Call)
  BY CallTypes
<1>6. Decays(order) \o last \in Seq(Call)
  BY <1>4, <1>5, ConcatProperties
<1> QED
  BY <1>1, <1>6, BeginType

LEMMA ListExpiredType ==
    ASSUME TypeOK, NEW p \in Processes, ListExpired(p)
    PROVE  TypeOK'
<1> DEFINE S == {c \in CellId : StatusIn(store, c) = "deleted"}
           Purges(order) == [i \in DOMAIN order |-> PurgeCall(order[i], store[order[i]])]
<1>1. PICK order \in Listings(S) : calls' = [calls EXCEPT ![p] = Purges(order)]
  BY DEF ListExpired
<1>2. PICK n \in Nat : DOMAIN order = 1..n
  BY ListingType
<1>3. \A i \in 1..n : PurgeCall(order[i], store[order[i]]) \in Call
  <2> TAKE i \in 1..n
  <2>1. order[i] \in S
    BY <1>2, ListingType
  <2>2. store[order[i]] \in Cell
    BY <2>1 DEF TypeOK, StatusIn
  <2> QED
    BY <2>1, <2>2, CallTypes
<1>4. Purges(order) \in Seq(Call)
  BY <1>2, <1>3
<1> HIDE DEF Purges
<1>5. calls' \in [Processes -> Seq(Call)]
  BY <1>1, <1>4 DEF TypeOK
<1>6. hand[p] = Nothing
  BY DEF TypeOK, ListExpired
<1>7. \A q \in Processes \ {p} : calls'[q] = calls[q]
  BY <1>1 DEF TypeOK
<1> QED
  BY <1>5, <1>6, <1>7 DEF TypeOK, ListExpired, Idle

\* The next call of a busy process, and those after it.
LEMMA NextCall ==
    ASSUME TypeOK, NEW p \in Processes, ~Idle(p)
    PROVE  Head(calls[p]) \in Call /\ Tail(calls[p]) \in Seq(Call)
BY HeadTailProperties DEF TypeOK, Idle

LEMMA ReadType ==
    ASSUME TypeOK, NEW p \in Processes, Read(p)
    PROVE  TypeOK'
<1> DEFINE call == Head(calls[p])
           doc(digits) == [cell |-> NewDocument(call, digits), at |-> now]
<1>1. call \in Call /\ Tail(calls[p]) \in Seq(Call) /\ call # ListCall
  BY NextCall, ListCallOp DEF Read
<1>2. hand[p] = Nothing /\ UNCHANGED <<now, store, minted, since, crashes>>
  BY DEF Read
<1>3. CASE calls' = [calls EXCEPT ![p] = Tail(@)] /\ UNCHANGED hand
  <2>1. calls' \in [Processes -> Seq(Call)] /\ \A q \in Processes \ {p} : calls'[q] = calls[q]
    BY <1>1, <1>3 DEF TypeOK
  <2> QED
    BY <1>2, <1>3, <2>1 DEF TypeOK, Idle
<1>4. CASE calls' = [calls EXCEPT ![p] = <<>>] /\ UNCHANGED hand
  <2>1. calls' \in [Processes -> Seq(Call)] /\ \A q \in Processes \ {p} : calls'[q] = calls[q]
    BY <1>4 DEF TypeOK
  <2> QED
    BY <1>2, <1>4, <2>1 DEF TypeOK, Idle
<1>5. ASSUME ~Raises(call), UNCHANGED calls, NEW digits \in DigitsAfterAccess(store[call.c].digits),
             hand' = [hand EXCEPT ![p] = doc(digits)]
      PROVE  TypeOK'
  <2>1. store[call.c] \in Cell /\ digits \in Digits
    BY <1>1, <1>5, CallCell DEF TypeOK, Raises, Present, DigitsAfterAccess
  <2>2. doc(digits) \in [cell : Cell, at : Time]
    BY <1>1, <2>1, NewDocumentType DEF TypeOK
  <2> HIDE DEF doc
  <2>3. hand' \in [Processes -> [cell : Cell, at : Time] \cup {Nothing}]
    BY <1>5, <2>2 DEF TypeOK
  <2>4. \A q \in Processes : hand'[q] # Nothing => ~Idle(q)' /\ Head(calls'[q]) # ListCall
    BY <1>1, <1>5 DEF TypeOK, Idle, Read
  <2> QED
    BY <1>2, <1>5, <2>3, <2>4 DEF TypeOK
<1> QED
  BY <1>3, <1>4, <1>5 DEF Read

LEMMA WriteBackType ==
    ASSUME TypeOK, NEW p \in Processes, WriteBack(p)
    PROVE  TypeOK'
<1> DEFINE call == Head(calls[p])
<1>1. ~Idle(p) /\ call # ListCall /\ hand[p] \in [cell : Cell, at : Time]
  BY DEF TypeOK, WriteBack
<1>2. call \in Call /\ Tail(calls[p]) \in Seq(Call)
  BY <1>1, NextCall
<1>3. call.c \in CellId /\ hand[p].cell \in Cell
  BY <1>1, <1>2, CallCell
<1>4. store' = Written(call, hand[p].cell)
  BY DEF WriteBack
<1>5. store' \in [CellId -> Cell \cup {NoCell}]
  BY <1>3, <1>4 DEF TypeOK, Written
<1>6. since' \in [CellId -> Time]
  BY SinceType DEF WriteBack
<1>7. calls' \in [Processes -> Seq(Call)] /\ \A q \in Processes \ {p} : calls'[q] = calls[q]
  BY <1>2 DEF TypeOK, WriteBack
<1>8. /\ hand' \in [Processes -> [cell : Cell, at : Time] \cup {Nothing}]
      /\ hand'[p] = Nothing
      /\ \A q \in Processes \ {p} : hand'[q] = hand[q]
  BY DEF TypeOK, WriteBack
<1> QED
  BY <1>5, <1>6, <1>7, <1>8 DEF TypeOK, WriteBack, Idle

LEMMA CrashType ==
    ASSUME TypeOK, NEW p \in Processes, Crash(p)
    PROVE  TypeOK'
<1>1. calls' \in [Processes -> Seq(Call)] /\ \A q \in Processes \ {p} : calls'[q] = calls[q]
  BY DEF TypeOK, Crash
<1>2. /\ hand' \in [Processes -> [cell : Cell, at : Time] \cup {Nothing}]
      /\ hand'[p] = Nothing
      /\ \A q \in Processes \ {p} : hand'[q] = hand[q]
  BY DEF TypeOK, Crash
<1>3. crashes' \in 0..MaxCrashes
  BY ClusterAssumption DEF TypeOK, Crash
<1> QED
  BY <1>1, <1>2, <1>3 DEF TypeOK, Crash, Idle

LEMMA TypeStep == TypeOK /\ [Next]_vars => TypeOK'
<1> SUFFICES ASSUME TypeOK, [Next]_vars PROVE TypeOK'
  OBVIOUS
<1>1. ASSUME NEW p \in Processes, NEW agent \in Agents, NEW c \in CellId, Request(p, agent, c)
      PROVE  TypeOK'
  BY <1>1, RequestType
<1>2. ASSUME NEW p \in Servers, StartPass(p) PROVE TypeOK'
  BY <1>2, StartPassType DEF Processes
<1>3. ASSUME NEW p \in Processes, Proceed(p) \/ Crash(p) PROVE TypeOK'
  BY <1>3, ReadType, WriteBackType, ListExpiredType, CrashType DEF Proceed
<1>4. CASE Tick
  <2>1. now' \in Time
    BY <1>4, TimeAssumption DEF Tick, TypeOK, Time
  <2> QED
    BY <1>4, <2>1 DEF Tick, TypeOK, Idle
<1>5. CASE UNCHANGED vars
  BY <1>5 DEF TypeOK, vars, Idle
<1> QED
  BY <1>1, <1>2, <1>3, <1>4, <1>5 DEF Next

\* Every variable stays in its set, for any number of processes and cells.
THEOREM ClusterTypeCorrect == Spec => []TypeOK
<1>1. Init => TypeOK
  <2>1. 0 \in 0..MaxCrashes /\ 0 \in Time
    BY TimeAssumption, ClusterAssumption DEF Time
  <2> QED
    BY <2>1 DEF Init, TypeOK
<1> QED
  BY <1>1, TypeStep, PTL DEF Spec

-----------------------------------------------------------------------------
\* No process brings a purged cell back: an id is inserted once, and a write
\* by id does nothing to a row that is gone.
THEOREM PurgedStaysPurged == Spec => PurgedForGood
<1>1. ASSUME TypeOK, [Next]_vars, NEW c \in CellId, c \in minted, ~Present(c)
      PROVE  store'[c] = NoCell
  <2>1. CASE \E p \in Processes, agent \in Agents, x \in CellId : Create(p, agent, x)
    <3>1. PICK x \in CellId : x \notin minted /\ \E cell : store' = [store EXCEPT ![x] = cell]
      BY <2>1 DEF Create
    <3> QED
      BY <1>1, <3>1 DEF TypeOK, Present
  <2>2. CASE \E p \in Processes : WriteBack(p)
    <3>1. PICK p \in Processes : WriteBack(p)
      BY <2>2
    <3>2. store' = Written(Head(calls[p]), hand[p].cell)
      BY <3>1 DEF WriteBack
    <3> QED
      BY <1>1, <3>2 DEF TypeOK, Written, Present
  <2>3. CASE store' = store
    BY <1>1, <2>3 DEF Present
  <2>4. \/ \E p \in Processes, agent \in Agents, x \in CellId : Create(p, agent, x)
        \/ \E p \in Processes : WriteBack(p)
        \/ store' = store
    BY <1>1 DEF Next, Request, Proceed, StartGet, StartUpdate, StartDelete, StartForget,
                StartPass, Begin, Read, ListExpired, Crash, Tick, vars
  <2> QED
    BY <2>1, <2>2, <2>3, <2>4
<1>2. TypeOK /\ [Next]_vars => [\A c \in CellId : c \in minted /\ ~Present(c) => store'[c] = NoCell]_vars
  BY <1>1
<1> QED
  BY <1>2, ClusterTypeCorrect, PTL DEF Spec, PurgedForGood

-----------------------------------------------------------------------------
(* The retention window, for two processes. The inductive invariant.        *)

\* The call a process is making, and its cell.
Op(p) == Head(calls[p]).op
On(p) == Head(calls[p]).c

\* What is in the store or has been read was handed out, what was recorded was
\* recorded in the past, and a call that has read soon writes.
InTime ==
    /\ \A c \in CellId : since[c] <= now /\ (Present(c) => c \in minted)
    /\ \A p \in Processes : hand[p] # Nothing =>
          hand[p].at <= now /\ now <= hand[p].at + CallTime /\ On(p) \in minted

\* Only the first call of a handler reads for its caller.
OtherCall == {call \in Call : call.op # "get"}
GetsComeFirst == \A p \in Processes : ~Idle(p) => Tail(calls[p]) \in Seq(OtherCall)

\* A deletion carries the time at which its call read the cell, and takes
\* place when that call writes.
DeletionIsStamped ==
    \A c \in CellId : StatusIn(store, c) = "deleted" => since[c] <= DeletionTime(store[c]) + CallTime

\* What a document in hand tells of its cell: one read after the deletion is
\* deleted; a read for a caller that found the cell deleted finds it so when
\* it writes; so does a purge, and the window was over when it read.
DocumentOK(p) ==
    LET doc == hand[p].cell
        at == hand[p].at
        c == On(p)
    IN  /\ Op(p) # "purge" /\ StatusIn(store, c) = "deleted" /\ since[c] < at => doc.status = "deleted"
        /\ Op(p) \notin {"get", "purge"} => DeletionTime(doc) = at
        /\ Op(p) = "get" /\ doc.status = "deleted" /\ Present(c) =>
             StatusIn(store, c) = "deleted" /\ since[c] <= DeletionTime(doc) + CallTime
        /\ Op(p) = "purge" /\ Present(c) =>
             StatusIn(store, c) = "deleted" /\ since[c] + RetentionDays <= at + CallTime
DocumentsOK == \A p \in Processes : hand[p] # Nothing => DocumentOK(p)

\* Process q can bring the deleted cell c back.
Reviving(q, c) ==
    /\ hand[q] # Nothing /\ On(q) = c /\ Op(q) # "purge" /\ hand[q].cell.status # "deleted"
    /\ StatusIn(store, c) = "deleted"

\* Meanwhile no other process is about to read it for a caller.
RevivedUnread ==
    \A p, q \in Processes : \A c \in CellId :
        p # q /\ Reviving(q, c) => Idle(p) \/ Head(calls[p]) # GetCall(c)

RetentionInv ==
    TypeOK /\ InTime /\ GetsComeFirst /\ DeletionIsStamped /\ DocumentsOK /\ RevivedUnread

\* What PurgesOnlyAfterRetention asks of its constants.
TwoProcesses == \A p, q, r \in Processes : p = q \/ q = r \/ p = r
ShortCalls == 2 * CallTime < RetentionDays

-----------------------------------------------------------------------------
(* What a call reads.                                                       *)

LEMMA DeletionTimeType ==
    ASSUME NEW cell \in Cell
    PROVE  DeletionTime(cell) \in Time
BY OrType DEF DeletionTime, Cell

LEMMA StampedDeletionTime ==
    ASSUME NEW cell \in Cell, NEW t \in Time, cell.last_updated_at = t
    PROVE  DeletionTime(cell) = t
BY TimeType, NullAssumption DEF DeletionTime, Or

LEMMA BoostedDeletionTime ==
    ASSUME NEW cell \in Cell, NEW t \in Time, NEW digits \in Digits
    PROVE  DeletionTime(Boosted(cell, t, digits)) = DeletionTime(cell)
BY DEF Boosted, DeletionTime, Cell

\* The document each kind of call prepares from a stored cell.
LEMMA PreparedDocument ==
    ASSUME NEW call \in Call, call # ListCall, store[call.c] \in Cell, now \in Time,
           ~PassedOver(call), ~Raises(call), call.c \in CellId, store[call.c] # NoCell,
           NEW digits \in Digits
    PROVE  LET cell == store[call.c]
               doc == NewDocument(call, digits)
           IN  /\ call.op # "purge" /\ cell.status = "deleted" => doc.status = "deleted"
               /\ call.op \notin {"get", "purge"} => DeletionTime(doc) = now
               /\ call.op = "get" => doc.status = cell.status /\ DeletionTime(doc) = DeletionTime(cell)
               /\ call.op = "purge" =>
                    cell.status = "deleted" /\ DeletionTime(cell) + RetentionDays <= now
<1> DEFINE cell == store[call.c]
           doc == NewDocument(call, digits)
<1>1. CASE call.op = "get"
  <2>1. doc = Boosted(cell, now, digits)
    BY <1>1 DEF NewDocument
  <2> QED
    BY <1>1, <2>1, BoostedType, BoostedDeletionTime
<1>2. CASE call.op \in {"update", "decay"}
  <2>1. doc = Updated(cell, PatchOf(call), now) /\ PatchOf(call) \in Patch
    BY <1>2, PatchOfType DEF NewDocument
  <2>2. doc \in Cell /\ doc.last_updated_at = now /\ doc.status = Or(PatchOf(call).status, cell.status)
    BY <2>1, UpdatedType
  <2>3. DeletionTime(doc) = now
    BY <2>2, StampedDeletionTime
  <2>4. PatchOf(call).status = Null \/ TransitionAllowed(cell.status, PatchOf(call).status)
    BY <1>2 DEF Raises, UpdateRefused
  <2>5. cell.status = "deleted" => doc.status = "deleted"
    BY <2>2, <2>4 DEF TransitionAllowed, Or
  <2> QED
    BY <1>2, <2>3, <2>5
<1>3. CASE call.op = "mark_deleted"
  <2>1. doc = MarkedDeleted(cell, now)
    BY <1>3 DEF NewDocument
  <2>2. doc \in Cell /\ doc.last_updated_at = now /\ doc.status = "deleted"
    BY <2>1, MarkedDeletedType
  <2> QED
    BY <1>3, <2>2, StampedDeletionTime
<1>4. CASE call.op = "purge"
  <2>1. cell.status = "deleted"
    BY <1>4 DEF Raises
  <2>2. now >= DeletionTime(cell) + RetentionDays
    BY <1>4, <2>1 DEF PassedOver, StatusIn, RetentionElapsed, RetentionDeadline
  <2>3. DeletionTime(cell) \in Nat /\ now \in Nat /\ RetentionDays \in Nat
    BY DeletionTimeType, TimeType, TimeAssumption
  <2> QED
    BY <1>4, <2>1, <2>2, <2>3
<1>5. call.op \in {"get", "update", "decay", "mark_deleted", "purge"}
  BY DEF Call, GetCall, MarkDeletedCall, ListCall
<1> QED
  BY <1>1, <1>2, <1>3, <1>4, <1>5

-----------------------------------------------------------------------------
(* The kinds of steps.                                                      *)

\* Process p starts a handler, ends one, or goes on to its next call without
\* having read anything. It reads for a caller only what was not deleted.
Turns(p) ==
    /\ UNCHANGED <<now, store, minted, since>>
    /\ \A q \in Processes \ {p} : calls'[q] = calls[q] /\ hand'[q] = hand[q]
    /\ hand'[p] = Nothing
    /\ \/ calls'[p] \in Seq(OtherCall)
       \/ \E c \in CellId : calls'[p] = <<GetCall(c)>> /\ StatusIn(store, c) # "deleted"

\* Process p takes a document in hand.
Takes(p) ==
    LET call == Head(calls[p])
        c == call.c
    IN  /\ UNCHANGED <<now, store, minted, since, calls>>
        /\ \A q \in Processes \ {p} : hand'[q] = hand[q]
        /\ ~Idle(p) /\ call \in Call /\ call # ListCall /\ c \in CellId /\ Present(c) /\ store[c] \in Cell
        /\ ~PassedOver(call) /\ ~Raises(call)
        /\ \E digits \in Digits : hand'[p] = [cell |-> NewDocument(call, digits), at |-> now]

LEMMA OtherCalls ==
    /\ ListCall \in OtherCall
    /\ \A c \in CellId : MarkDeletedCall(c) \in OtherCall
    /\ \A c \in CellId, patch \in Patch : UpdateCall(c, patch) \in OtherCall
    /\ \A c \in CellId, cell \in Cell :
         DecayCall(c, cell) \in OtherCall /\ PurgeCall(c, cell) \in OtherCall
BY CallTypes DEF OtherCall, ListCall, MarkDeletedCall, PurgeCall, UpdateCall, DecayCall

LEMMA BeginTurns ==
    ASSUME TypeOK, NEW p \in Processes, NEW todo, Begin(p, todo),
           \/ todo \in Seq(OtherCall)
           \/ \E c \in CellId : todo = <<GetCall(c)>> /\ StatusIn(store, c) # "deleted"
    PROVE  Turns(p)
<1>1. calls'[p] = todo /\ \A q \in Processes \ {p} : calls'[q] = calls[q]
  BY DEF TypeOK, Begin
<1>2. hand'[p] = Nothing /\ hand' = hand
  BY DEF TypeOK, Begin
<1> QED
  BY <1>1, <1>2 DEF Turns, Begin

LEMMA RequestTurns ==
    ASSUME TypeOK, NEW p \in Processes, NEW agent \in Agents, NEW c \in CellId,
           Request(p, agent, c), ~Create(p, agent, c)
    PROVE  Turns(p)
<1>1. CASE StartGet(p, agent, c)
  <2>1. Begin(p, <<GetCall(c)>>) /\ StatusIn(store, c) # "deleted"
    BY <1>1 DEF StartGet, Present, StatusIn
  <2> QED
    BY <2>1, BeginTurns
<1>2. CASE StartUpdate(p, agent, c)
  <2>1. PICK patch \in Patches : Begin(p, <<UpdateCall(c, patch)>>)
    BY <1>2 DEF StartUpdate
  <2>2. UpdateCall(c, patch) \in OtherCall
    BY OtherCalls, ClusterAssumption
  <2>3. <<UpdateCall(c, patch)>> \in Seq(OtherCall)
    BY <2>2
  <2> QED
    BY <2>1, <2>3, BeginTurns
<1>3. CASE StartDelete(p, agent, c)
  <2>1. <<MarkDeletedCall(c)>> \in Seq(OtherCall)
    BY OtherCalls
  <2> QED
    BY <1>3, <2>1, BeginTurns DEF StartDelete
<1>4. CASE StartForget(p, agent, c)
  <2>1. SetStatusTo("archived") \in Patch
    BY SetStatusToType DEF Status
  <2>2. <<UpdateCall(c, SetStatusTo("archived")), MarkDeletedCall(c)>> \in Seq(OtherCall)
    BY <2>1, OtherCalls
  <2> QED
    BY <1>4, <2>2, BeginTurns DEF StartForget
<1> QED
  BY <1>1, <1>2, <1>3, <1>4 DEF Request

LEMMA StartPassTurns ==
    ASSUME TypeOK, NEW p \in Processes, StartPass(p)
    PROVE  Turns(p)
<1> DEFINE S == {c \in CellId : StatusIn(store, c) \in {"active", "stale"}}
           Decays(order) == [i \in DOMAIN order |-> DecayCall(order[i], store[order[i]])]
           last == IF PurgeRetention THEN <<ListCall>> ELSE <<>>
<1>1. PICK order \in Listings(S) : Begin(p, Decays(order) \o last)
  BY DEF StartPass
<1>2. PICK n \in Nat : DOMAIN order = 1..n
  BY ListingType
<1>3. \A i \in 1..n : DecayCall(order[i], store[order[i]]) \in OtherCall
  <2> TAKE i \in 1..n
  <2>1. order[i] \in S
    BY <1>2, ListingType
  <2>2. store[order[i]] \in Cell
    BY <2>1 DEF TypeOK, StatusIn
  <2> QED
    BY <2>1, <2>2, OtherCalls
<1>4. Decays(order) \in Seq(OtherCall)
  BY <1>2, <1>3
<1>5. last \in Seq(OtherCall)
  BY OtherCalls
<1>6. Decays(order) \o last \in Seq(OtherCall)
  BY <1>4, <1>5, ConcatProperties
<1> QED
  BY <1>1, <1>6, BeginTurns

LEMMA ListExpiredTurns ==
    ASSUME TypeOK, NEW p \in Processes, ListExpired(p)
    PROVE  Turns(p)
<1> DEFINE S == {c \in CellId : StatusIn(store, c) = "deleted"}
           Purges(order) == [i \in DOMAIN order |-> PurgeCall(order[i], store[order[i]])]
<1>1. PICK order \in Listings(S) : calls' = [calls EXCEPT ![p] = Purges(order)]
  BY DEF ListExpired
<1>2. PICK n \in Nat : DOMAIN order = 1..n
  BY ListingType
<1>3. \A i \in 1..n : PurgeCall(order[i], store[order[i]]) \in OtherCall
  <2> TAKE i \in 1..n
  <2>1. order[i] \in S
    BY <1>2, ListingType
  <2>2. store[order[i]] \in Cell
    BY <2>1 DEF TypeOK, StatusIn
  <2> QED
    BY <2>1, <2>2, OtherCalls
<1>4. Purges(order) \in Seq(OtherCall)
  BY <1>2, <1>3
<1>5. hand[p] = Nothing /\ hand' = hand
  BY DEF TypeOK, ListExpired
<1> HIDE DEF Purges
<1>6. calls'[p] = Purges(order) /\ \A q \in Processes \ {p} : calls'[q] = calls[q]
  BY <1>1 DEF TypeOK
<1> QED
  BY <1>4, <1>5, <1>6 DEF Turns, ListExpired

LEMMA ReadKinds ==
    ASSUME TypeOK, GetsComeFirst, NEW p \in Processes, Read(p)
    PROVE  Turns(p) \/ Takes(p)
<1> DEFINE call == Head(calls[p])
           doc(digits) == [cell |-> NewDocument(call, digits), at |-> now]
<1>1. ~Idle(p) /\ call \in Call /\ call # ListCall /\ call.c \in CellId
  BY NextCall, ListCallOp, CallCell DEF Read
<1>2. hand[p] = Nothing /\ UNCHANGED <<now, store, minted, since>>
  BY DEF Read
<1>3. CASE calls' = [calls EXCEPT ![p] = Tail(@)] /\ UNCHANGED hand
  <2>1. calls'[p] = Tail(calls[p]) /\ \A q \in Processes \ {p} : calls'[q] = calls[q]
    BY <1>3 DEF TypeOK
  <2>2. calls'[p] \in Seq(OtherCall)
    BY <1>1, <2>1 DEF GetsComeFirst
  <2> QED
    BY <1>2, <1>3, <2>1, <2>2 DEF Turns
<1>4. CASE calls' = [calls EXCEPT ![p] = <<>>] /\ UNCHANGED hand
  <2>1. calls'[p] = <<>> /\ \A q \in Processes \ {p} : calls'[q] = calls[q]
    BY <1>4 DEF TypeOK
  <2>2. calls'[p] \in Seq(OtherCall)
    BY <2>1
  <2> QED
    BY <1>2, <1>4, <2>1, <2>2 DEF Turns
<1>5. ASSUME ~PassedOver(call), ~Raises(call), UNCHANGED calls,
             NEW digits \in DigitsAfterAccess(store[call.c].digits),
             hand' = [hand EXCEPT ![p] = doc(digits)]
      PROVE  Takes(p)
  <2>1. Present(call.c) /\ store[call.c] \in Cell /\ digits \in Digits
    BY <1>1, <1>5 DEF TypeOK, Raises, Present, DigitsAfterAccess
  <2> HIDE DEF doc
  <2>2. hand'[p] = doc(digits) /\ \A q \in Processes \ {p} : hand'[q] = hand[q]
    BY <1>5 DEF TypeOK
  <2> QED
    BY <1>1, <1>2, <1>5, <2>1, <2>2 DEF Takes, doc
<1> QED
  BY <1>3, <1>4, <1>5 DEF Read

LEMMA CrashTurns ==
    ASSUME TypeOK, NEW p \in Processes, Crash(p)
    PROVE  Turns(p)
<1>1. calls'[p] = <<>> /\ hand'[p] = Nothing
  BY DEF TypeOK, Crash
<1>2. \A q \in Processes \ {p} : calls'[q] = calls[q] /\ hand'[q] = hand[q]
  BY DEF TypeOK, Crash
<1>3. calls'[p] \in Seq(OtherCall)
  BY <1>1
<1> QED
  BY <1>1, <1>2, <1>3 DEF Turns, Crash

LEMMA StepKinds ==
    ASSUME TypeOK, GetsComeFirst, [Next]_vars
    PROVE  \/ \E p \in Processes : Turns(p) \/ Takes(p) \/ WriteBack(p)
           \/ \E p \in Processes, agent \in Agents, c \in CellId : Create(p, agent, c)
           \/ Tick
           \/ UNCHANGED vars
<1>1. ASSUME NEW p \in Servers, StartPass(p) PROVE p \in Processes /\ Turns(p)
  BY <1>1, StartPassTurns DEF Processes
<1>2. ASSUME NEW p \in Processes, Proceed(p) \/ Crash(p) PROVE Turns(p) \/ Takes(p) \/ WriteBack(p)
  BY <1>2, ReadKinds, ListExpiredTurns, CrashTurns DEF Proceed
<1> QED
  BY <1>1, <1>2, RequestTurns DEF Next

-----------------------------------------------------------------------------
(* The invariant, kind by kind.                                             *)

LEMMA InHand ==
    ASSUME TypeOK, NEW p \in Processes, hand[p] # Nothing
    PROVE  /\ hand[p].cell \in Cell /\ hand[p].at \in Nat
           /\ ~Idle(p) /\ Head(calls[p]) \in Call /\ Head(calls[p]) # ListCall
           /\ On(p) \in CellId
<1>1. hand[p] \in [cell : Cell, at : Time] /\ ~Idle(p) /\ Head(calls[p]) # ListCall
  BY DEF TypeOK
<1>2. Head(calls[p]) \in Call
  BY <1>1, NextCall
<1> QED
  BY <1>1, <1>2, CallCell, TimeType DEF On

LEMMA Clocks ==
    ASSUME TypeOK
    PROVE  now \in Nat /\ CallTime \in Nat /\ RetentionDays \in Nat /\ \A c \in CellId : since[c] \in Nat
BY TimeType, TimeAssumption, ClusterAssumption DEF TypeOK

LEMMA HeadOfOthers ==
    ASSUME NEW s \in Seq(OtherCall), s # <<>>
    PROVE  /\ Tail(s) \in Seq(OtherCall)
           /\ \A c \in CellId : Head(s) # GetCall(c)
<1>1. Head(s) \in OtherCall /\ Tail(s) \in Seq(OtherCall)
  BY HeadTailProperties
<1> QED
  BY <1>1 DEF OtherCall, GetCall

\* A process nothing happened to, over a cell nothing happened to.
LEMMA KeptDocument ==
    ASSUME NEW q \in Processes, calls'[q] = calls[q], hand'[q] = hand[q],
           store'[On(q)] = store[On(q)], since'[On(q)] = since[On(q)], DocumentOK(q)
    PROVE  DocumentOK(q)'
BY DEF DocumentOK, On, Op, StatusIn, Present

LEMMA TurnsKeeps ==
    ASSUME RetentionInv, NEW p \in Processes, Turns(p)
    PROVE  InTime' /\ GetsComeFirst' /\ DeletionIsStamped' /\ DocumentsOK' /\ RevivedUnread'
<1>1. /\ now' = now /\ store' = store /\ minted' = minted /\ since' = since /\ hand'[p] = Nothing
      /\ \A q \in Processes \ {p} : calls'[q] = calls[q] /\ hand'[q] = hand[q]
  BY DEF Turns
<1>2. InTime'
  BY <1>1 DEF RetentionInv, InTime, Present, On
<1>3. \A c \in CellId : ~Idle(p)' /\ Head(calls'[p]) = GetCall(c) => StatusIn(store, c) # "deleted"
  <2>1. CASE calls'[p] \in Seq(OtherCall)
    BY <2>1, HeadOfOthers DEF Idle
  <2>2. ASSUME NEW d \in CellId, calls'[p] = <<GetCall(d)>>, StatusIn(store, d) # "deleted",
               NEW c \in CellId, Head(calls'[p]) = GetCall(c)
        PROVE  StatusIn(store, c) # "deleted"
    <3>1. GetCall(c) = GetCall(d)
      BY <2>2
    <3>2. c = d
      BY <3>1 DEF GetCall
    <3> QED
      BY <2>2, <3>2
  <2> QED
    BY <2>1, <2>2 DEF Turns
<1>4. GetsComeFirst'
  <2>1. ~Idle(p)' => Tail(calls'[p]) \in Seq(OtherCall)
    <3>1. CASE calls'[p] \in Seq(OtherCall)
      BY <3>1, HeadOfOthers DEF Idle
    <3>2. ASSUME NEW d \in CellId, calls'[p] = <<GetCall(d)>> PROVE Tail(calls'[p]) \in Seq(OtherCall)
      <4>1. Tail(<<GetCall(d)>>) = <<>>
        OBVIOUS
      <4> QED
        BY <3>2, <4>1
    <3> QED
      BY <3>1, <3>2 DEF Turns
  <2> QED
    BY <1>1, <2>1 DEF RetentionInv, GetsComeFirst, Idle
<1>5. DeletionIsStamped'
  BY <1>1 DEF RetentionInv, DeletionIsStamped, StatusIn
<1>6. DocumentsOK'
  BY <1>1, KeptDocument DEF RetentionInv, DocumentsOK
<1>7. RevivedUnread'
  <2> SUFFICES ASSUME NEW r \in Processes, NEW q \in Processes, NEW c \in CellId, r # q, Reviving(q, c)'
               PROVE  (Idle(r) \/ Head(calls[r]) # GetCall(c))'
    BY DEF RevivedUnread
  <2>1. q # p /\ Reviving(q, c)
    BY <1>1 DEF Reviving, On, Op, StatusIn
  <2>2. StatusIn(store, c) = "deleted"
    BY <2>1 DEF Reviving
  <2>3. CASE r = p
    BY <1>3, <2>2, <2>3
  <2>4. CASE r # p
    BY <1>1, <2>1, <2>4 DEF RetentionInv, RevivedUnread, Idle
  <2> QED
    BY <2>3, <2>4
<1> QED
  BY <1>2, <1>4, <1>5, <1>6, <1>7

LEMMA TakesKeeps ==
    ASSUME RetentionInv, NEW p \in Processes, Takes(p)
    PROVE  InTime' /\ GetsComeFirst' /\ DeletionIsStamped' /\ DocumentsOK' /\ RevivedUnread'
<1> DEFINE call == Head(calls[p])
           c == call.c
<1>0. PICK digits \in Digits : hand'[p] = [cell |-> NewDocument(call, digits), at |-> now]
  BY DEF Takes
<1> DEFINE doc == NewDocument(call, digits)
<1>1. /\ now' = now /\ store' = store /\ minted' = minted /\ since' = since /\ calls' = calls
      /\ \A q \in Processes \ {p} : hand'[q] = hand[q]
      /\ hand'[p] = [cell |-> doc, at |-> now]
      /\ call \in Call /\ call # ListCall /\ c \in CellId /\ Present(c) /\ store[c] \in Cell
      /\ ~PassedOver(call) /\ ~Raises(call)
  BY <1>0 DEF Takes
<1>2. On(p)' = c /\ Op(p)' = call.op /\ (hand[p].cell)' = doc /\ (hand[p].at)' = now
  BY <1>1 DEF On, Op
<1>3. now \in Nat /\ CallTime \in Nat /\ RetentionDays \in Nat /\ since[c] \in Nat /\ now \in Time
  BY <1>1, Clocks DEF RetentionInv, TypeOK
<1>4. DeletionTime(store[c]) \in Nat
  BY <1>1, DeletionTimeType, TimeType
<1>5. StatusIn(store, c) = store[c].status
  BY <1>1 DEF StatusIn, Present
<1>6. /\ call.op # "purge" /\ StatusIn(store, c) = "deleted" => doc.status = "deleted"
      /\ call.op \notin {"get", "purge"} => DeletionTime(doc) = now
      /\ call.op = "get" => doc.status = StatusIn(store, c) /\ DeletionTime(doc) = DeletionTime(store[c])
      /\ call.op = "purge" =>
           StatusIn(store, c) = "deleted" /\ DeletionTime(store[c]) + RetentionDays <= now
  BY <1>1, <1>3, <1>5, PreparedDocument DEF Present
<1> HIDE DEF doc, call, c
<1>7. InTime'
  <2>1. c \in minted
    BY <1>1 DEF RetentionInv, InTime
  <2>2. (hand[p].at <= now /\ now <= hand[p].at + CallTime /\ On(p) \in minted)'
    BY <1>1, <1>2, <1>3, <2>1
  <2>3. ASSUME NEW q \in Processes, q # p, hand'[q] # Nothing
        PROVE  (hand[q].at <= now /\ now <= hand[q].at + CallTime /\ On(q) \in minted)'
    BY <1>1, <2>3 DEF RetentionInv, InTime, On
  <2>4. \A x \in CellId : (since[x] <= now /\ (Present(x) => x \in minted))'
    BY <1>1 DEF RetentionInv, InTime, Present
  <2> QED
    BY <2>2, <2>3, <2>4 DEF InTime
<1>8. GetsComeFirst' /\ DeletionIsStamped'
  BY <1>1 DEF RetentionInv, GetsComeFirst, DeletionIsStamped, StatusIn, Idle
<1>9. DocumentOK(p)'
  <2>1. StatusIn(store, c) = "deleted" => since[c] <= DeletionTime(store[c]) + CallTime
    BY <1>1 DEF RetentionInv, DeletionIsStamped
  <2>2. call.op = "get" /\ doc.status = "deleted" =>
          StatusIn(store, c) = "deleted" /\ since[c] <= DeletionTime(doc) + CallTime
    BY <1>6, <2>1
  <2>3. call.op = "purge" =>
          StatusIn(store, c) = "deleted" /\ since[c] + RetentionDays <= now + CallTime
    BY <1>3, <1>4, <1>6, <2>1
  <2>4. StatusIn(store', c) = StatusIn(store, c) /\ store'[c] = store[c] /\ since'[c] = since[c]
    BY <1>1 DEF StatusIn
  <2> QED
    BY <1>1, <1>2, <1>6, <2>2, <2>3, <2>4 DEF DocumentOK, StatusIn
<1>10. DocumentsOK'
  BY <1>1, <1>9, KeptDocument DEF RetentionInv, DocumentsOK
<1>11. RevivedUnread'
  <2> SUFFICES ASSUME NEW r \in Processes, NEW q \in Processes, NEW x \in CellId, r # q, Reviving(q, x)'
               PROVE  (Idle(r) \/ Head(calls[r]) # GetCall(x))'
    BY DEF RevivedUnread
  <2>1. q # p
    <3>1. ASSUME q = p PROVE FALSE
      <4>1. x = c /\ call.op # "purge" /\ doc.status # "deleted" /\ StatusIn(store, c) = "deleted"
        BY <1>1, <1>2, <3>1 DEF Reviving, StatusIn
      <4> QED
        BY <1>6, <4>1
    <3> QED
      BY <3>1
  <2>2. Reviving(q, x)
    BY <1>1, <2>1 DEF Reviving, On, Op, StatusIn
  <2> QED
    BY <1>1, <2>2 DEF RetentionInv, RevivedUnread, Idle
<1> QED
  BY <1>7, <1>8, <1>10, <1>11

\* What the second statement of a call does.
LEMMA WriteEffect ==
    ASSUME TypeOK, NEW p \in Processes, WriteBack(p)
    PROVE  /\ now' = now /\ minted' = minted /\ hand'[p] = Nothing /\ calls'[p] = Tail(calls[p])
           /\ \A q \in Processes \ {p} : calls'[q] = calls[q] /\ hand'[q] = hand[q]
           /\ \A c \in CellId : c # On(p) \/ ~Present(c) => store'[c] = store[c] /\ since'[c] = since[c]
           /\ Present(On(p)) /\ Op(p) = "purge" => store'[On(p)] = NoCell /\ since'[On(p)] = now
           /\ Present(On(p)) /\ Op(p) # "purge" =>
                /\ store'[On(p)] = hand[p].cell
                /\ StatusIn(store', On(p)) = hand[p].cell.status
                /\ since'[On(p)] = IF hand[p].cell.status = StatusIn(store, On(p))
                                   THEN since[On(p)] ELSE now
<1> DEFINE c == On(p)
           doc == hand[p].cell
<1>1. hand[p] # Nothing
  BY DEF WriteBack
<1>2. doc \in Cell /\ c \in CellId
  BY <1>1, InHand
<1>3. /\ now' = now /\ minted' = minted /\ hand'[p] = Nothing /\ calls'[p] = Tail(calls[p])
      /\ \A q \in Processes \ {p} : calls'[q] = calls[q] /\ hand'[q] = hand[q]
  BY DEF TypeOK, WriteBack
<1>4. store' = IF Present(c)
               THEN [store EXCEPT ![c] = IF Op(p) = "purge" THEN NoCell ELSE doc]
               ELSE store
  BY DEF WriteBack, Written, On, Op
<1> HIDE DEF c, doc
<1>5. \A x \in CellId : since'[x] = IF StatusIn(store', x) = StatusIn(store, x) THEN since[x] ELSE now
  BY DEF WriteBack, SinceAfter
<1>6. \A x \in CellId : x # c \/ ~Present(x) => store'[x] = store[x]
  BY <1>2, <1>4 DEF TypeOK, Present
<1>7. \A x \in CellId : x # c \/ ~Present(x) => since'[x] = since[x]
  BY <1>5, <1>6 DEF StatusIn
<1>8. CASE Present(c) /\ Op(p) = "purge"
  <2>1. store'[c] = NoCell
    BY <1>2, <1>4, <1>8 DEF TypeOK
  <2>2. store[c] \in Cell /\ store[c] # NoCell
    BY <1>2, <1>8 DEF TypeOK, Present
  <2>3. StatusIn(store', c) = "none" /\ StatusIn(store, c) # "none"
    BY <2>1, <2>2 DEF StatusIn, Cell, Status
  <2>4. since'[c] = now
    BY <1>2, <1>5, <2>3
  <2> QED
    BY <1>3, <1>6, <1>7, <1>8, <2>1, <2>4 DEF c
<1>9. CASE Present(c) /\ Op(p) # "purge"
  <2>1. store'[c] = doc
    BY <1>2, <1>4, <1>9 DEF TypeOK
  <2>2. StatusIn(store', c) = doc.status
    BY <1>2, <2>1, NoCellAssumption DEF StatusIn
  <2>3. since'[c] = IF doc.status = StatusIn(store, c) THEN since[c] ELSE now
    BY <1>2, <1>5, <2>2
  <2> QED
    BY <1>3, <1>6, <1>7, <1>9, <2>1, <2>2, <2>3 DEF c, doc
<1> QED
  BY <1>3, <1>6, <1>7, <1>8, <1>9 DEF c

LEMMA WriteBackKeepsPlaces ==
    ASSUME RetentionInv, NEW p \in Processes, WriteBack(p)
    PROVE  InTime' /\ GetsComeFirst' /\ DeletionIsStamped'
<1> DEFINE c == On(p)
           doc == hand[p].cell
           at == hand[p].at
<1>1. TypeOK /\ hand[p] # Nothing
  BY DEF RetentionInv, WriteBack
<1>2. /\ now' = now /\ minted' = minted /\ hand'[p] = Nothing /\ calls'[p] = Tail(calls[p])
      /\ \A q \in Processes \ {p} : calls'[q] = calls[q] /\ hand'[q] = hand[q]
      /\ \A x \in CellId : x # c \/ ~Present(x) => store'[x] = store[x] /\ since'[x] = since[x]
      /\ Present(c) /\ Op(p) = "purge" => store'[c] = NoCell /\ since'[c] = now
      /\ Present(c) /\ Op(p) # "purge" =>
           /\ store'[c] = doc /\ StatusIn(store', c) = doc.status
           /\ since'[c] = IF doc.status = StatusIn(store, c) THEN since[c] ELSE now
  BY <1>1, WriteEffect
<1>3. doc \in Cell /\ at \in Nat /\ ~Idle(p) /\ c \in CellId
  BY <1>1, InHand
<1>4. now \in Nat /\ CallTime \in Nat /\ \A x \in CellId : since[x] \in Nat
  BY <1>1, Clocks
<1>5. \A x \in CellId : since[x] <= now /\ (Present(x) => x \in minted)
  BY DEF RetentionInv, InTime
<1>6. now <= at + CallTime
  BY <1>1 DEF RetentionInv, InTime
<1> HIDE DEF c, doc, at
<1>7. InTime'
  <2>1. ASSUME NEW x \in CellId PROVE since'[x] <= now /\ (store'[x] # NoCell => x \in minted)
    <3>1. CASE x # c \/ ~Present(x)
      BY <1>2, <1>5, <3>1 DEF Present
    <3>2. CASE x = c /\ Present(x)
      BY <1>2, <1>4, <1>5, <3>2
    <3> QED
      BY <3>1, <3>2
  <2>2. ASSUME NEW q \in Processes, hand'[q] # Nothing
        PROVE  (hand[q].at <= now /\ now <= hand[q].at + CallTime /\ On(q) \in minted)'
    BY <1>2, <2>2 DEF RetentionInv, InTime, On
  <2> QED
    BY <1>2, <2>1, <2>2 DEF InTime, Present
<1>8. GetsComeFirst'
  <2>1. Tail(calls[p]) \in Seq(OtherCall)
    BY <1>3 DEF RetentionInv, GetsComeFirst
  <2>2. ~Idle(p)' => Tail(calls'[p]) \in Seq(OtherCall)
    BY <1>2, <2>1, HeadOfOthers DEF Idle
  <2> QED
    BY <1>2, <2>2 DEF RetentionInv, GetsComeFirst, Idle
<1>9. DeletionIsStamped'
  <2> SUFFICES ASSUME NEW x \in CellId, StatusIn(store, x)' = "deleted"
               PROVE  since'[x] <= DeletionTime(store'[x]) + CallTime
    BY DEF DeletionIsStamped
  <2>1. CASE x # c \/ ~Present(x)
    BY <1>2, <2>1 DEF RetentionInv, DeletionIsStamped, StatusIn
  <2>2. CASE x = c /\ Present(x)
    <3>1. Op(p) # "purge"
      BY <1>2, <2>2 DEF StatusIn
    <3>2. store'[c] = doc /\ doc.status = "deleted"
      BY <1>2, <2>2, <3>1 DEF StatusIn
    <3>3. DocumentOK(p)
      BY <1>1 DEF RetentionInv, DocumentsOK
    <3>4. CASE Op(p) # "get"
      <4>1. DeletionTime(doc) = at
        BY <3>1, <3>3, <3>4 DEF DocumentOK, doc, at
      <4>2. since'[c] <= now
        BY <1>2, <1>3, <1>4, <1>5, <2>2, <3>1
      <4>3. since'[c] \in Nat
        BY <1>2, <1>3, <1>4, <2>2, <3>1
      <4> QED
        BY <1>3, <1>4, <1>6, <2>2, <3>2, <4>1, <4>2, <4>3
    <3>5. CASE Op(p) = "get"
      <4>1. StatusIn(store, c) = "deleted" /\ since[c] <= DeletionTime(doc) + CallTime
        BY <2>2, <3>2, <3>3, <3>5 DEF DocumentOK, doc, c
      <4>2. since'[c] = since[c]
        BY <1>2, <2>2, <3>1, <3>2, <4>1
      <4> QED
        BY <2>2, <3>2, <4>1, <4>2
    <3> QED
      BY <3>4, <3>5
  <2> QED
    BY <2>1, <2>2
<1> QED
  BY <1>7, <1>8, <1>9

\* A write of another process over the cell of a document in hand.
LEMMA WriteBackKeepsDocuments ==
    ASSUME RetentionInv, ShortCalls, NEW p \in Processes, WriteBack(p)
    PROVE  DocumentsOK'
<1> DEFINE c == On(p)
           doc == hand[p].cell
           at == hand[p].at
<1>1. TypeOK /\ hand[p] # Nothing
  BY DEF RetentionInv, WriteBack
<1>2. /\ now' = now /\ hand'[p] = Nothing
      /\ \A q \in Processes \ {p} : calls'[q] = calls[q] /\ hand'[q] = hand[q]
      /\ \A x \in CellId : x # c \/ ~Present(x) => store'[x] = store[x] /\ since'[x] = since[x]
      /\ Present(c) /\ Op(p) = "purge" => store'[c] = NoCell /\ since'[c] = now
      /\ Present(c) /\ Op(p) # "purge" =>
           /\ store'[c] = doc /\ StatusIn(store', c) = doc.status
           /\ since'[c] = IF doc.status = StatusIn(store, c) THEN since[c] ELSE now
  BY <1>1, WriteEffect
<1>3. doc \in Cell /\ at \in Nat /\ c \in CellId
  BY <1>1, InHand
<1>4. now \in Nat /\ CallTime \in Nat /\ RetentionDays \in Nat /\ since[c] \in Nat
  BY <1>1, <1>3, Clocks
<1>5. now <= at + CallTime /\ DocumentOK(p)
  BY <1>1 DEF RetentionInv, InTime, DocumentsOK
<1>6. Op(p) # "purge" /\ StatusIn(store, c) = "deleted" /\ since[c] < at => doc.status = "deleted"
  BY <1>5 DEF DocumentOK
<1>7. \A r \in Processes : r # p /\ Op(p) # "purge" /\ doc.status # "deleted" /\ StatusIn(store, c) = "deleted"
        => Idle(r) \/ Head(calls[r]) # GetCall(c)
  BY <1>1, <1>3 DEF RetentionInv, RevivedUnread, Reviving
<1> HIDE DEF c, doc, at
<1> SUFFICES ASSUME NEW q \in Processes, hand'[q] # Nothing PROVE DocumentOK(q)'
  BY DEF DocumentsOK
<1>8. q # p /\ calls'[q] = calls[q] /\ hand'[q] = hand[q] /\ hand[q] # Nothing
  BY <1>2
<1>9. /\ hand[q].at \in Nat /\ hand[q].at <= now /\ DocumentOK(q) /\ On(q) \in CellId
      /\ ~Idle(q) /\ Head(calls[q]) \in Call
  BY <1>1, <1>8, InHand DEF RetentionInv, InTime, DocumentsOK
<1>10. CASE On(q) # c \/ ~Present(On(q))
  <2>1. store'[On(q)] = store[On(q)] /\ since'[On(q)] = since[On(q)]
    BY <1>2, <1>9, <1>10
  <2> QED
    BY <1>8, <1>9, <2>1, KeptDocument
<1>11. CASE On(q) = c /\ Present(c) /\ Op(p) = "purge"
  <2>1. StatusIn(store', c) = "none" /\ store'[c] = NoCell
    BY <1>2, <1>11 DEF StatusIn
  <2>2. On(q)' = c /\ Op(q)' = Op(q) /\ hand'[q] = hand[q]
    BY <1>8, <1>11 DEF On, Op
  <2>3. Op(q) \notin {"get", "purge"} => DeletionTime(hand[q].cell) = hand[q].at
    BY <1>9 DEF DocumentOK
  <2> QED
    BY <2>1, <2>2, <2>3 DEF DocumentOK, StatusIn, Present
<1>12. CASE On(q) = c /\ Present(c) /\ Op(p) # "purge"
  <2> DEFINE mine == hand[q].cell
             read == hand[q].at
  <2>1. On(q)' = c /\ Op(q)' = Op(q) /\ hand'[q] = hand[q]
    BY <1>8, <1>12 DEF On, Op
  <2>2. /\ Op(q) # "purge" /\ StatusIn(store, c) = "deleted" /\ since[c] < read => mine.status = "deleted"
        /\ Op(q) \notin {"get", "purge"} => DeletionTime(mine) = read
        /\ Op(q) = "get" /\ mine.status = "deleted" =>
             StatusIn(store, c) = "deleted" /\ since[c] <= DeletionTime(mine) + CallTime
        /\ Op(q) = "purge" =>
             StatusIn(store, c) = "deleted" /\ since[c] + RetentionDays <= read + CallTime
    BY <1>9, <1>12 DEF DocumentOK
  <2>3. read \in Nat /\ read <= now
    BY <1>9
  <2>4. Op(q) = "get" => Head(calls[q]) = GetCall(c)
    BY <1>9, <1>12 DEF Op, On, Call, GetCall, MarkDeletedCall, ListCall
  <2> HIDE DEF mine, read
  <2>5. /\ StatusIn(store', c) = doc.status
        /\ since'[c] = IF doc.status = StatusIn(store, c) THEN since[c] ELSE now
    BY <1>2, <1>12
  <2>6. Op(q) # "purge" /\ doc.status = "deleted" /\ since'[c] < read => mine.status = "deleted"
    BY <1>4, <2>2, <2>3, <2>5
  <2>7. Op(q) = "get" /\ mine.status = "deleted" =>
          doc.status = "deleted" /\ since'[c] <= DeletionTime(mine) + CallTime
    <3> SUFFICES ASSUME Op(q) = "get", mine.status = "deleted"
                 PROVE  doc.status = "deleted" /\ since'[c] <= DeletionTime(mine) + CallTime
      OBVIOUS
    <3>1. StatusIn(store, c) = "deleted" /\ since[c] <= DeletionTime(mine) + CallTime
      BY <2>2
    <3>2. doc.status = "deleted"
      BY <1>7, <1>8, <1>9, <1>12, <2>4, <3>1
    <3> QED
      BY <2>5, <3>1, <3>2
  <2>8. Op(q) = "purge" => doc.status = "deleted" /\ since'[c] + RetentionDays <= read + CallTime
    <3> SUFFICES ASSUME Op(q) = "purge"
                 PROVE  doc.status = "deleted" /\ since'[c] + RetentionDays <= read + CallTime
      OBVIOUS
    <3>1. StatusIn(store, c) = "deleted" /\ since[c] + RetentionDays <= read + CallTime
      BY <2>2
    <3>2. since[c] < at
      BY <1>3, <1>4, <1>5, <2>3, <3>1 DEF ShortCalls
    <3>3. doc.status = "deleted"
      BY <1>6, <1>12, <3>1, <3>2
    <3> QED
      BY <2>5, <3>1, <3>3
  <2>9. Op(q) \notin {"get", "purge"} => DeletionTime(mine) = read
    BY <2>2
  <2> QED
    BY <2>1, <2>5, <2>6, <2>7, <2>8, <2>9 DEF DocumentOK, StatusIn, mine, read
<1> QED
  BY <1>10, <1>11, <1>12

\* With two processes, the one that has just written is the only one that could
\* be about to read what the other may revive, and it has no such call left.
LEMMA WriteBackKeepsUnread ==
    ASSUME RetentionInv, TwoProcesses, NEW p \in Processes, WriteBack(p)
    PROVE  RevivedUnread'
<1> SUFFICES ASSUME NEW r \in Processes, NEW q \in Processes, NEW c \in CellId, r # q, Reviving(q, c)'
             PROVE  (Idle(r) \/ Head(calls[r]) # GetCall(c))'
  BY DEF RevivedUnread
<1>1. TypeOK /\ hand[p] # Nothing
  BY DEF RetentionInv, WriteBack
<1>2. hand'[p] = Nothing /\ calls'[p] = Tail(calls[p])
  BY <1>1, WriteEffect
<1>3. q # p
  BY <1>2 DEF Reviving
<1>4. r = p
  BY <1>3 DEF TwoProcesses
<1>5. Tail(calls[p]) \in Seq(OtherCall)
  BY <1>1, InHand DEF RetentionInv, GetsComeFirst
<1> QED
  BY <1>2, <1>4, <1>5, HeadOfOthers DEF Idle

\* A new cell is one nobody has a document of.
LEMMA CreateKeeps ==
    ASSUME RetentionInv, NEW p \in Processes, NEW agent \in Agents, NEW c \in CellId, Create(p, agent, c)
    PROVE  InTime' /\ GetsComeFirst' /\ DeletionIsStamped' /\ DocumentsOK' /\ RevivedUnread'
<1>1. /\ c \notin minted /\ minted' = minted \cup {c} /\ since' = SinceAfter(store')
      /\ now' = now /\ calls' = calls /\ hand' = hand
  BY DEF Create
<1>2. PICK owner \in Agents, lifetime \in Lifetimes, body \in Bodies, policy \in Policies :
        store' = [store EXCEPT ![c] = NewCell(agent, owner, lifetime, body, policy, now)]
  BY DEF Create
<1> DEFINE cell == NewCell(agent, owner, lifetime, body, policy, now)
<1>3. cell \in Cell /\ cell.status = "active"
  BY NewCellType DEF RetentionInv, TypeOK, NewCell
<1>4. store'[c] = cell /\ \A x \in CellId \ {c} : store'[x] = store[x]
  BY <1>2 DEF RetentionInv, TypeOK
<1> HIDE DEF cell
<1>5. store'[c].status = "active" /\ StatusIn(store', c) = "active"
  BY <1>3, <1>4, NoCellAssumption DEF StatusIn
<1>6. \A x \in CellId \ {c} : since'[x] = since[x]
  BY <1>1, <1>4 DEF SinceAfter, StatusIn
<1>7. now \in Nat /\ since'[c] <= now
  <2>1. now \in Nat /\ since[c] <= now
    BY Clocks DEF RetentionInv, InTime
  <2>2. since'[c] \in {since[c], now}
    BY <1>1 DEF SinceAfter
  <2> QED
    BY <2>1, <2>2
<1>8. \A q \in Processes : hand[q] # Nothing => On(q) \in CellId \ {c}
  BY <1>1, InHand DEF RetentionInv, InTime
<1>9. InTime'
  <2>1. \A x \in CellId : (since[x] <= now /\ (Present(x) => x \in minted))'
    BY <1>1, <1>4, <1>6, <1>7 DEF RetentionInv, InTime, Present
  <2>2. \A q \in Processes : (hand[q] # Nothing =>
          hand[q].at <= now /\ now <= hand[q].at + CallTime /\ On(q) \in minted)'
    BY <1>1 DEF RetentionInv, InTime, On
  <2> QED
    BY <2>1, <2>2 DEF InTime
<1>10. GetsComeFirst'
  BY <1>1 DEF RetentionInv, GetsComeFirst, Idle
<1>11. DeletionIsStamped'
  <2> SUFFICES ASSUME NEW x \in CellId, StatusIn(store, x)' = "deleted"
               PROVE  since'[x] <= DeletionTime(store'[x]) + CallTime
    BY DEF DeletionIsStamped
  <2>1. x # c
    BY <1>5 DEF StatusIn
  <2> QED
    BY <1>4, <1>6, <2>1 DEF RetentionInv, DeletionIsStamped, StatusIn
<1>12. DocumentsOK'
  <2> SUFFICES ASSUME NEW q \in Processes, hand'[q] # Nothing PROVE DocumentOK(q)'
    BY DEF DocumentsOK
  <2>1. store'[On(q)] = store[On(q)] /\ since'[On(q)] = since[On(q)] /\ DocumentOK(q)
    BY <1>1, <1>4, <1>6, <1>8 DEF RetentionInv, DocumentsOK
  <2> QED
    BY <1>1, <2>1, KeptDocument
<1>13. RevivedUnread'
  <2> SUFFICES ASSUME NEW r \in Processes, NEW q \in Processes, NEW x \in CellId, r # q, Reviving(q, x)'
               PROVE  (Idle(r) \/ Head(calls[r]) # GetCall(x))'
    BY DEF RevivedUnread
  <2>1. On(q) = x /\ hand[q] # Nothing
    BY <1>1 DEF Reviving, On
  <2>2. x \in CellId \ {c}
    BY <1>8, <2>1
  <2>3. Reviving(q, x)
    BY <1>1, <1>4, <2>2 DEF Reviving, On, Op, StatusIn
  <2> QED
    BY <1>1, <2>3 DEF RetentionInv, RevivedUnread, Idle
<1> QED
  BY <1>9, <1>10, <1>11, <1>12, <1>13

LEMMA TickKeeps ==
    ASSUME RetentionInv, Tick
    PROVE  InTime' /\ GetsComeFirst' /\ DeletionIsStamped' /\ DocumentsOK' /\ RevivedUnread'
<1>1. /\ now' = now + 1 /\ store' = store /\ minted' = minted /\ calls' = calls /\ hand' = hand
      /\ since' = since /\ \A p \in Processes : hand[p] # Nothing => now < hand[p].at + CallTime
  BY DEF Tick
<1>2. InTime'
  <2>1. now \in Nat /\ CallTime \in Nat /\ \A c \in CellId : since[c] \in Nat
    BY Clocks DEF RetentionInv
  <2>2. ASSUME NEW p \in Processes, hand'[p] # Nothing
        PROVE  (hand[p].at <= now /\ now <= hand[p].at + CallTime /\ On(p) \in minted)'
    <3>1. hand[p].at \in Nat /\ hand[p].at <= now /\ On(p) \in minted
      BY <1>1, <2>2, InHand DEF RetentionInv, InTime
    <3>2. now < hand[p].at + CallTime
      BY <1>1, <2>2
    <3>3. hand[p].at <= now + 1 /\ now + 1 <= hand[p].at + CallTime
      BY <2>1, <3>1, <3>2
    <3> QED
      BY <1>1, <3>1, <3>3 DEF On
  <2>3. ASSUME NEW c \in CellId PROVE (since[c] <= now /\ (Present(c) => c \in minted))'
    <3>1. since[c] <= now /\ (Present(c) => c \in minted)
      BY DEF RetentionInv, InTime
    <3> QED
      BY <1>1, <2>1, <3>1 DEF Present
  <2> QED
    BY <2>2, <2>3 DEF InTime
<1>3. GetsComeFirst' /\ DeletionIsStamped'
  BY <1>1 DEF RetentionInv, GetsComeFirst, DeletionIsStamped, StatusIn, Idle
<1>4. DocumentsOK'
  BY <1>1, KeptDocument DEF RetentionInv, DocumentsOK
<1>5. RevivedUnread'
  BY <1>1 DEF RetentionInv, RevivedUnread, Reviving, On, Op, StatusIn, Idle
<1> QED
  BY <1>2, <1>3, <1>4, <1>5

LEMMA StutterKeeps ==
    ASSUME RetentionInv, UNCHANGED vars
    PROVE  InTime' /\ GetsComeFirst' /\ DeletionIsStamped' /\ DocumentsOK' /\ RevivedUnread'
<1>1. /\ now' = now /\ store' = store /\ minted' = minted /\ calls' = calls /\ hand' = hand
      /\ since' = since
  BY DEF vars
<1>2. InTime'
  BY <1>1 DEF RetentionInv, InTime, Present, On
<1>3. GetsComeFirst' /\ DeletionIsStamped'
  BY <1>1 DEF RetentionInv, GetsComeFirst, DeletionIsStamped, StatusIn, Idle
<1>4. DocumentsOK'
  BY <1>1, KeptDocument DEF RetentionInv, DocumentsOK
<1>5. RevivedUnread'
  BY <1>1 DEF RetentionInv, RevivedUnread, Reviving, On, Op, StatusIn, Idle
<1> QED
  BY <1>2, <1>3, <1>4, <1>5

LEMMA RetentionInvStep ==
    ASSUME TwoProcesses, ShortCalls
    PROVE  RetentionInv /\ [Next]_vars => RetentionInv'
<1> SUFFICES ASSUME RetentionInv, [Next]_vars PROVE RetentionInv'
  OBVIOUS
<1>1. TypeOK' /\ TypeOK /\ GetsComeFirst
  BY TypeStep DEF RetentionInv
<1>2. InTime' /\ GetsComeFirst' /\ DeletionIsStamped' /\ DocumentsOK' /\ RevivedUnread'
  <2>1. CASE \E p \in Processes : Turns(p)
    BY <2>1, TurnsKeeps
  <2>2. CASE \E p \in Processes : Takes(p)
    BY <2>2, TakesKeeps
  <2>3. CASE \E p \in Processes : WriteBack(p)
    BY <2>3, WriteBackKeepsPlaces, WriteBackKeepsDocuments, WriteBackKeepsUnread
  <2>4. CASE \E p \in Processes, agent \in Agents, c \in CellId : Create(p, agent, c)
    BY <2>4, CreateKeeps
  <2>5. CASE Tick
    BY <2>5, TickKeeps
  <2>6. CASE UNCHANGED vars
    BY <2>6, StutterKeeps
  <2> QED
    BY <1>1, <2>1, <2>2, <2>3, <2>4, <2>5, <2>6, StepKinds
<1> QED
  BY <1>1, <1>2 DEF RetentionInv

LEMMA RetentionInvInit == Init => RetentionInv
<1> SUFFICES ASSUME Init PROVE RetentionInv
  OBVIOUS
<1>1. TypeOK
  <2>1. 0 \in 0..MaxCrashes /\ 0 \in Time
    BY TimeAssumption, ClusterAssumption DEF Time
  <2> QED
    BY <2>1 DEF Init, TypeOK
<1>2. \A c \in CellId : ~Present(c) /\ StatusIn(store, c) = "none" /\ since[c] = 0
  BY DEF Init, Present, StatusIn
<1>3. \A p \in Processes : hand[p] = Nothing /\ Idle(p)
  BY DEF Init, Idle
<1>4. InTime
  BY <1>2, <1>3 DEF InTime, Init
<1>5. GetsComeFirst /\ DocumentsOK /\ RevivedUnread
  BY <1>3 DEF GetsComeFirst, DocumentsOK, RevivedUnread, Reviving
<1>6. DeletionIsStamped
  BY <1>2 DEF DeletionIsStamped
<1> QED
  BY <1>1, <1>4, <1>5, <1>6 DEF RetentionInv

\* With two processes, and calls shorter than half the window, what leaves the
\* store had been deleted for the whole window, short of the time of one call,
\* although a purge decides on what it read one statement earlier.
THEOREM PurgedAfterTheWindow ==
    ASSUME TwoProcesses, ShortCalls
    PROVE  Spec => PurgesOnlyAfterRetention
<1>1. ASSUME RetentionInv, [Next]_vars, NEW c \in CellId, Present(c), store'[c] = NoCell
      PROVE  store[c].status = "deleted" /\ now + CallTime >= since[c] + RetentionDays
  <2>1. PICK p \in Processes : WriteBack(p)
    <3>1. ~(\E p \in Processes : Turns(p) \/ Takes(p)) /\ ~Tick /\ ~UNCHANGED vars
      BY <1>1 DEF Turns, Takes, Tick, vars, Present
    <3>2. ~(\E p \in Processes, agent \in Agents, x \in CellId : Create(p, agent, x))
      <4>1. ASSUME NEW p \in Processes, NEW agent \in Agents, NEW x \in CellId, Create(p, agent, x)
            PROVE  FALSE
        <5>1. PICK owner \in Agents, lifetime \in Lifetimes, body \in Bodies, policy \in Policies :
                store' = [store EXCEPT ![x] = NewCell(agent, owner, lifetime, body, policy, now)]
          BY <4>1 DEF Create
        <5>2. NewCell(agent, owner, lifetime, body, policy, now) \in Cell
          BY <1>1, NewCellType DEF RetentionInv, TypeOK
        <5> QED
          BY <1>1, <5>1, <5>2, NoCellAssumption DEF RetentionInv, TypeOK, Present
      <4> QED
        BY <4>1
    <3> QED
      BY <1>1, <3>1, <3>2, StepKinds DEF RetentionInv
  <2>2. TypeOK /\ hand[p] # Nothing
    BY <1>1, <2>1 DEF RetentionInv, WriteBack
  <2>3. hand[p].cell \in Cell /\ hand[p].at \in Nat /\ hand[p].at <= now
    BY <1>1, <2>2, InHand DEF RetentionInv, InTime
  <2>4. On(p) = c /\ Op(p) = "purge"
    BY <1>1, <2>1, <2>2, <2>3, WriteEffect, NoCellAssumption DEF Present
  <2>5. StatusIn(store, c) = "deleted" /\ since[c] + RetentionDays <= hand[p].at + CallTime
    BY <1>1, <2>2, <2>4 DEF RetentionInv, DocumentsOK, DocumentOK
  <2>6. now \in Nat /\ CallTime \in Nat /\ RetentionDays \in Nat /\ since[c] \in Nat
    BY <2>2, Clocks
  <2>7. now + CallTime >= since[c] + RetentionDays
    BY <2>3, <2>5, <2>6
  <2> QED
    BY <1>1, <2>5, <2>7 DEF StatusIn, Present
<1>2. RetentionInv /\ [Next]_vars =>
        [\A c \in CellId : Present(c) /\ store'[c] = NoCell =>
           store[c].status = "deleted" /\ now + CallTime >= since[c] + RetentionDays]_vars
  BY <1>1
<1>3. RetentionInv /\ [Next]_vars => RetentionInv'
  BY RetentionInvStep
<1> QED
  BY <1>2, <1>3, RetentionInvInit, PTL DEF Spec, PurgesOnlyAfterRetention
=============================================================================
